---------------------------- MODULE Spec2Model ----------------------------
(***************************************************************************)
(* Model of the crypto RSI dashboard: the RSI calculator (scalar and array *)
(* form), the multi-timeframe signal functions of lib/signals.ts and the   *)
(* signal scanner of app/page.tsx.                                         *)
(*                                                                         *)
(* Numbers.  JavaScript numbers are modelled as exact rationals            *)
(* [num |-> n, den |-> d] with d > 0 in lowest terms; the value null is    *)
(* the record NULL (den = 0) and undefined is UNDEF (den = -1).            *)
(***************************************************************************)
EXTENDS Integers, Sequences, FiniteSets, TLC

VARIABLES
    fn,          \* the pure function being applied ("idle" between calls)
    args,        \* its arguments, a tuple
    ret,         \* the value it returned
    pc,          \* runSignalScanner: position of the scan
    tfIdx,       \* runSignalScanner: index into tfConfigs of the next fetch
    pairIdx,     \* runSignalScanner: index into top50 of the pair in progress
    timeframes,  \* runSignalScanner: label -> TimeframeAnalysis of the pair
    results,     \* runSignalScanner: the local results list
    signalResults, \* the React state written by setSignalResults
    triggeredRef, \* checkAlerts: triggeredAlertsRef.current, a set of alert keys
    unreset,     \* history: keys notified and not since checked with a false condition
    alertsState, \* Home: the React state alerts, written by setAlerts
    symbols,     \* BinanceWebSocket: this.symbols, as the set of its elements
    priceWs,     \* BinanceWebSocket: this.priceWs, an index into sockets or 0 for null
    klineWs,     \* BinanceWebSocket: this.klineWs, an index into sockets or 0 for null
    reconnectTimeout, \* BinanceWebSocket: this.reconnectTimeout, a timer handle or 0 for null
    sockets,     \* every WebSocket constructed so far, in order of construction
    timers,      \* the handles of the pending timeouts
    timerCount,  \* the number of handles setTimeout has returned
    quiet,       \* history: disconnect() has returned and the page has not called connect() or updateSymbols() since
    wsEvent      \* history: the call or callback of the last step

vars == <<fn, args, ret, pc, tfIdx, pairIdx, timeframes, results, signalResults, triggeredRef, unreset, alertsState, symbols, priceWs, klineWs, reconnectTimeout, sockets, timers, timerCount, quiet, wsEvent>>

pureVars == <<fn, args, ret>>
scanVars == <<pc, tfIdx, pairIdx, timeframes, results, signalResults>>
alertVars == <<triggeredRef, unreset>>
listVars == <<alertsState>>
wsVars == <<symbols, priceWs, klineWs, reconnectTimeout, sockets, timers, timerCount, quiet, wsEvent>>

-----------------------------------------------------------------------------
(* Bounds of the model *)

MaxLen == 5        \* longest price series
MaxPrice == 4      \* prices are 1..MaxPrice
MaxPeriod == 3     \* periods are 1..MaxPeriod
Den == 2           \* readings are drawn at a threshold and 1/Den either side
MaxPairs == 1      \* pairs of the ticker list that one scan goes through
MaxListed == 3     \* longest list of timeframe labels given to calculateConfluence
Lookback == 17     \* the lookbackCandles of the long divergence windows
MaxSurplus == 1    \* candles of a backtest series beyond the required minimum

-----------------------------------------------------------------------------
(* Exact rational arithmetic standing for JavaScript number arithmetic *)

NULL == [num |-> 0, den |-> 0]
UNDEF == [num |-> 0, den |-> -1]

IsNum(x) == x.den > 0

Abs(n) == IF n < 0 THEN -n ELSE n

RECURSIVE GCD(_, _)
GCD(a, b) == IF b = 0 THEN a ELSE GCD(b, a % b)

Rat(n, d) ==
    LET s == IF d < 0 THEN -1 ELSE 1
        g == GCD(Abs(n), Abs(d))
    IN  [num |-> (s * n) \div g, den |-> (s * d) \div g]

R(n) == [num |-> n, den |-> 1]

RAdd(a, b) == Rat(a.num * b.den + b.num * a.den, a.den * b.den)
RSub(a, b) == Rat(a.num * b.den - b.num * a.den, a.den * b.den)
RMul(a, b) == Rat(a.num * b.num, a.den * b.den)
RDiv(a, b) == Rat(a.num * b.den, a.den * b.num)
RLt(a, b) == a.num * b.den < b.num * a.den
RLe(a, b) == a.num * b.den <= b.num * a.den
RGt(a, b) == RLt(b, a)
RGe(a, b) == RLe(b, a)
RAbs(a) == [num |-> Abs(a.num), den |-> a.den]
RMin(a, b) == IF RLe(a, b) THEN a ELSE b
RMax(a, b) == IF RGe(a, b) THEN a ELSE b

\* Math.round: the nearest integer, a tie going up
MathRound(a) == (2 * a.num + a.den) \div (2 * a.den)

\* Number.prototype.toFixed(1), as a count of tenths (readings are >= 0)
ToFixed1(a) == (20 * a.num + a.den) \div (2 * a.den)

-----------------------------------------------------------------------------
(* lib/rsi.ts: calculateRSI *)

\* mutant: a rise is booked as a loss and a fall as a gain
RECURSIVE InitialSums_Swapped(_, _, _, _)
InitialSums_Swapped(closes, period, i, acc) ==
    IF i > period THEN acc
    ELSE LET change == closes[i + 1] - closes[i]
         IN  InitialSums_Swapped(closes, period, i + 1,
                IF change > 0
                THEN [gains |-> acc.gains, losses |-> acc.losses + change]
                ELSE [gains |-> acc.gains - change, losses |-> acc.losses])

\* for (let i = 1; i <= period; i++): the sums of the first period changes
RECURSIVE InitialSums(_, _, _, _)
InitialSums(closes, period, i, acc) ==
    IF i > period THEN acc
    ELSE LET change == closes[i + 1] - closes[i]
         IN  InitialSums(closes, period, i + 1,
                IF change > 0
                THEN [gains |-> acc.gains + change, losses |-> acc.losses]
                ELSE [gains |-> acc.gains, losses |-> acc.losses - change])

\* for (let i = period + 1; i < closes.length; i++): Wilder smoothing
RECURSIVE SmoothAverages(_, _, _, _)
SmoothAverages(closes, period, i, avg) ==
    IF i >= Len(closes) THEN avg
    ELSE LET change == closes[i + 1] - closes[i]
             p == R(period)
             p1 == R(period - 1)
         IN  SmoothAverages(closes, period, i + 1,
                IF change > 0
                THEN [avgGain |-> RDiv(RAdd(RMul(avg.avgGain, p1), R(change)), p),
                      avgLoss |-> RDiv(RMul(avg.avgLoss, p1), p)]
                ELSE [avgGain |-> RDiv(RMul(avg.avgGain, p1), p),
                      avgLoss |-> RDiv(RSub(RMul(avg.avgLoss, p1), R(change)), p)])

\* lines 5-32: the computation once the series is long enough
RSIOfSeries(closes, period) ==
    LET sums == InitialSums(closes, period, 1, [gains |-> 0, losses |-> 0])
        avg == SmoothAverages(closes, period, period + 1,
                   [avgGain |-> Rat(sums.gains, period),
                    avgLoss |-> Rat(sums.losses, period)])
    IN  IF avg.avgLoss = R(0) THEN R(100)
        ELSE LET rs == RDiv(avg.avgGain, avg.avgLoss)
             IN  RSub(R(100), RDiv(R(100), RAdd(R(1), rs)))

\* mutant: the guard asks for one candle more than the code does
calculateRSI_LateGuard(closes, period) ==
    IF Len(closes) < period + 2 THEN NULL ELSE RSIOfSeries(closes, period)

calculateRSI(closes, period) ==
    IF Len(closes) < period + 1 THEN NULL ELSE RSIOfSeries(closes, period)

-----------------------------------------------------------------------------
(* lib/analysis.ts: calculateRSIArray *)

\* 100 - (100 / (1 + rs)) with rs = avgLoss === 0 ? 100 : avgGain / avgLoss
RSIFromAverages(avgGain, avgLoss) ==
    LET rs == IF avgLoss = R(0) THEN R(100) ELSE RDiv(avgGain, avgLoss)
    IN  RSub(R(100), RDiv(R(100), RAdd(R(1), rs)))

\* for (let i = 1; i <= period; i++) avgGain += ... / avgLoss += Math.abs(...)
RECURSIVE InitialAverage(_, _, _, _)
InitialAverage(closes, period, i, acc) ==
    IF i > period THEN acc
    ELSE LET change == closes[i + 1] - closes[i]
         IN  InitialAverage(closes, period, i + 1,
                IF change > 0
                THEN [avgGain |-> acc.avgGain + change, avgLoss |-> acc.avgLoss]
                ELSE [avgGain |-> acc.avgGain, avgLoss |-> acc.avgLoss + Abs(change)])

\* for (let i = period + 1; i < closes.length; i++) { ...; rsiValues.push(...) }
\* (at the head of iteration i, rsiValues holds the i - period values pushed
\* so far)
RECURSIVE SubsequentRSI(_, _, _, _, _)
SubsequentRSI(closes, period, i, avg, rsiValues) ==
    IF Len(rsiValues) = i - period /\ i >= Len(closes) THEN rsiValues
    ELSE LET change == closes[i + 1] - closes[i]
             gain == IF change > 0 THEN change ELSE 0
             loss == IF change < 0 THEN Abs(change) ELSE 0
             p == R(period)
             p1 == R(period - 1)
             avgGain == RDiv(RAdd(RMul(avg.avgGain, p1), R(gain)), p)
             avgLoss == RDiv(RAdd(RMul(avg.avgLoss, p1), R(loss)), p)
         IN  SubsequentRSI(closes, period, i + 1,
                [avgGain |-> avgGain, avgLoss |-> avgLoss],
                Append(rsiValues, RSIFromAverages(avgGain, avgLoss)))

calculateRSIArray(closes, period) ==
    IF Len(closes) < period + 1 THEN <<>>
    ELSE LET sums == InitialAverage(closes, period, 1,
                        [avgGain |-> 0, avgLoss |-> 0])
             avgGain == Rat(sums.avgGain, period)
             avgLoss == Rat(sums.avgLoss, period)
         IN  SubsequentRSI(closes, period, period + 1,
                [avgGain |-> avgGain, avgLoss |-> avgLoss],
                <<RSIFromAverages(avgGain, avgLoss)>>)

-----------------------------------------------------------------------------
(* lib/signals.ts: classification of one timeframe *)

\* mutant: the bear test excludes readings of exactly 50
calculateTrendState_StrictBear(rsi14, rsi50, rsi200) ==
    IF rsi14 = NULL \/ rsi50 = NULL THEN "neutral"
    ELSE LET rsi200Check == IF rsi200 = NULL THEN TRUE ELSE RGe(rsi200, R(50))
             rsi200BearCheck == IF rsi200 = NULL THEN TRUE ELSE RLt(rsi200, R(50))
         IN  IF RGe(rsi14, R(50)) /\ RGe(rsi50, R(50)) /\ rsi200Check THEN "bull"
             ELSE IF RLt(rsi14, R(50)) /\ RLt(rsi50, R(50)) /\ rsi200BearCheck
                  THEN "bear"
                  ELSE "neutral"

\* mutant: an absent rsi200 fails the bull test instead of passing it
calculateTrendState_Strict200(rsi14, rsi50, rsi200) ==
    IF rsi14 = NULL \/ rsi50 = NULL THEN "neutral"
    ELSE LET rsi200Check == IF rsi200 = NULL THEN FALSE ELSE RGe(rsi200, R(50))
             rsi200BearCheck == IF rsi200 = NULL THEN TRUE ELSE RLe(rsi200, R(50))
         IN  IF RGe(rsi14, R(50)) /\ RGe(rsi50, R(50)) /\ rsi200Check THEN "bull"
             ELSE IF RLe(rsi14, R(50)) /\ RLe(rsi50, R(50)) /\ rsi200BearCheck
                  THEN "bear"
                  ELSE "neutral"

calculateTrendState(rsi14, rsi50, rsi200) ==
    IF rsi14 = NULL \/ rsi50 = NULL THEN "neutral"
    ELSE LET rsi200Check == IF rsi200 = NULL THEN TRUE ELSE RGe(rsi200, R(50))
             rsi200BearCheck == IF rsi200 = NULL THEN TRUE ELSE RLe(rsi200, R(50))
         IN  IF RGe(rsi14, R(50)) /\ RGe(rsi50, R(50)) /\ rsi200Check THEN "bull"
             ELSE IF RLe(rsi14, R(50)) /\ RLe(rsi50, R(50)) /\ rsi200BearCheck
                  THEN "bear"
                  ELSE "neutral"

\* mutant: one absent reading is enough for neutral
calculateStretchState_AbsentNeutral(rsi5, rsi9) ==
    IF rsi5 = NULL \/ rsi9 = NULL THEN "neutral"
    ELSE LET isOversold == RLe(rsi5, R(25)) \/ RLe(rsi9, R(30))
             isOverbought == RGe(rsi5, R(75)) \/ RGe(rsi9, R(70))
         IN  IF isOversold THEN "oversold"
             ELSE IF isOverbought THEN "overbought"
                  ELSE "neutral"

\* mutant: the overbought test runs first
calculateStretchState_OverboughtFirst(rsi5, rsi9) ==
    IF rsi5 = NULL /\ rsi9 = NULL THEN "neutral"
    ELSE LET isOversold == \/ (rsi5 # NULL /\ RLe(rsi5, R(25)))
                           \/ (rsi9 # NULL /\ RLe(rsi9, R(30)))
             isOverbought == \/ (rsi5 # NULL /\ RGe(rsi5, R(75)))
                             \/ (rsi9 # NULL /\ RGe(rsi9, R(70)))
         IN  IF isOverbought THEN "overbought"
             ELSE IF isOversold THEN "oversold"
                  ELSE "neutral"

calculateStretchState(rsi5, rsi9) ==
    IF rsi5 = NULL /\ rsi9 = NULL THEN "neutral"
    ELSE LET isOversold == \/ (rsi5 # NULL /\ RLe(rsi5, R(25)))
                           \/ (rsi9 # NULL /\ RLe(rsi9, R(30)))
             isOverbought == \/ (rsi5 # NULL /\ RGe(rsi5, R(75)))
                             \/ (rsi9 # NULL /\ RGe(rsi9, R(70)))
         IN  IF isOversold THEN "oversold"
             ELSE IF isOverbought THEN "overbought"
                  ELSE "neutral"

\* mutant: the fast reading must have been strictly below before the cross
detectBullFlip_StrictCross(rsi5, rsi9, rsi5Prev, rsi9Prev, rsi14Rising) ==
    IF rsi5 = NULL \/ rsi9 = NULL \/ rsi5Prev = NULL \/ rsi9Prev = NULL THEN FALSE
    ELSE LET crossedAbove == RLt(rsi5Prev, rsi9Prev) /\ RGt(rsi5, rsi9)
         IN  crossedAbove /\ rsi14Rising

detectBullFlip(rsi5, rsi9, rsi5Prev, rsi9Prev, rsi14Rising) ==
    IF rsi5 = NULL \/ rsi9 = NULL \/ rsi5Prev = NULL \/ rsi9Prev = NULL THEN FALSE
    ELSE LET crossedAbove == RLe(rsi5Prev, rsi9Prev) /\ RGt(rsi5, rsi9)
         IN  crossedAbove /\ rsi14Rising

detectBearFlip(rsi5, rsi9, rsi5Prev, rsi9Prev, rsi14Falling) ==
    IF rsi5 = NULL \/ rsi9 = NULL \/ rsi5Prev = NULL \/ rsi9Prev = NULL THEN FALSE
    ELSE LET crossedBelow == RGe(rsi5Prev, rsi9Prev) /\ RLt(rsi5, rsi9)
         IN  crossedBelow /\ rsi14Falling

-----------------------------------------------------------------------------
(* lib/signals.ts: bias and regime *)

\* mutant: one bull trend is enough for a long swing bias
calculateSwingBias_Either(trend1D, trend4H) ==
    IF trend1D = "bull" \/ trend4H = "bull" THEN "long_only"
    ELSE IF trend1D = "bear" /\ trend4H = "bear" THEN "short_only"
         ELSE "no_trade"

\* mutant: the daily trend alone decides the swing bias
calculateSwingBias_DailyOnly(trend1D, trend4H) ==
    IF trend1D = "bull" THEN "long_only"
    ELSE IF trend1D = "bear" THEN "short_only"
         ELSE "no_trade"

calculateSwingBias(trend1D, trend4H) ==
    IF trend1D = "bull" /\ trend4H = "bull" THEN "long_only"
    ELSE IF trend1D = "bear" /\ trend4H = "bear" THEN "short_only"
         ELSE "no_trade"

\* mutant: the bear test runs before the bull test
calculateScalpBias_BearFirst(trend1H, trend4H) ==
    IF trend1H = "bear" \/ trend4H = "bear" THEN "short_only"
    ELSE IF trend1H = "bull" \/ trend4H = "bull" THEN "long_only"
         ELSE "no_trade"

calculateScalpBias(trend1H, trend4H) ==
    IF trend1H = "bull" \/ trend4H = "bull" THEN "long_only"
    ELSE IF trend1H = "bear" \/ trend4H = "bear" THEN "short_only"
         ELSE "no_trade"

\* [..].filter(v => v !== null)
RECURSIVE FilterNotNull(_)
FilterNotNull(s) ==
    IF s = <<>> THEN <<>>
    ELSE IF Head(s) # NULL THEN <<Head(s)>> \o FilterNotNull(Tail(s))
         ELSE FilterNotNull(Tail(s))

\* mutant: a reading of exactly 50 counts as above fifty
calculateRegime_FiftyIsAbove(rsi75_4H, rsi100_4H, rsi200_4H, rsi75_1D, rsi100_1D, rsi200_1D) ==
    LET values == FilterNotNull(<<rsi75_4H, rsi100_4H, rsi200_4H,
                                  rsi75_1D, rsi100_1D, rsi200_1D>>)
        aboveFifty == Cardinality({i \in DOMAIN values : RGe(values[i], R(50))})
        belowFifty == Cardinality({i \in DOMAIN values : RLt(values[i], R(50))})
    IN  IF Len(values) < 3 THEN "transition"
        ELSE IF 10 * aboveFifty >= 7 * Len(values) THEN "bull_regime"
             ELSE IF 10 * belowFifty >= 7 * Len(values) THEN "bear_regime"
                  ELSE "transition"

\* values.length * 0.7 is compared with a count: count >= n * 0.7 in doubles
\* is 10 * count >= 7 * n for the lengths 3..6 that reach the comparison
calculateRegime(rsi75_4H, rsi100_4H, rsi200_4H, rsi75_1D, rsi100_1D, rsi200_1D) ==
    LET values == FilterNotNull(<<rsi75_4H, rsi100_4H, rsi200_4H,
                                  rsi75_1D, rsi100_1D, rsi200_1D>>)
        aboveFifty == Cardinality({i \in DOMAIN values : RGt(values[i], R(50))})
        belowFifty == Cardinality({i \in DOMAIN values : RLt(values[i], R(50))})
    IN  IF Len(values) < 3 THEN "transition"
        ELSE IF 10 * aboveFifty >= 7 * Len(values) THEN "bull_regime"
             ELSE IF 10 * belowFifty >= 7 * Len(values) THEN "bear_regime"
                  ELSE "transition"

-----------------------------------------------------------------------------
(* lib/signals.ts: calculateConfidence *)

\* lines 145-149: bias strength
BiasStrengthScore(rsi14_1D, rsi14_4H) ==
    IF rsi14_1D # NULL /\ rsi14_4H # NULL
    THEN RMin(R(40), RAdd(RAbs(RSub(rsi14_1D, R(50))), RAbs(RSub(rsi14_4H, R(50)))))
    ELSE R(0)

\* lines 151-162: setup quality
SetupQualityScore(bias, rsi5, rsi9) ==
    IF rsi5 # NULL /\ rsi9 # NULL
    THEN IF bias = "long_only"
         THEN RMin(R(30), RMax(R(0), RSub(R(50), RMin(rsi5, rsi9))))
         ELSE IF bias = "short_only"
              THEN RMin(R(30), RMax(R(0), RSub(RMax(rsi5, rsi9), R(50))))
              ELSE R(0)
    ELSE R(0)

\* mutant: the 1h bonus is given to scalp signals as well
TriggerQualityScore_NoSwingTest(bias, hasFlip, rsi14Confirms, isSwing, rsi14_1H) ==
    RAdd(RAdd(IF hasFlip THEN R(15) ELSE R(0),
              IF rsi14Confirms THEN R(10) ELSE R(0)),
         IF rsi14_1H # NULL /\ rsi14_1H # UNDEF
            /\ \/ (bias = "long_only" /\ RGe(rsi14_1H, R(50)))
               \/ (bias = "short_only" /\ RLe(rsi14_1H, R(50)))
         THEN R(5) ELSE R(0))

\* lines 164-172: trigger quality
TriggerQualityScore(bias, hasFlip, rsi14Confirms, isSwing, rsi14_1H) ==
    RAdd(RAdd(IF hasFlip THEN R(15) ELSE R(0),
              IF rsi14Confirms THEN R(10) ELSE R(0)),
         IF isSwing /\ rsi14_1H # NULL /\ rsi14_1H # UNDEF
            /\ \/ (bias = "long_only" /\ RGe(rsi14_1H, R(50)))
               \/ (bias = "short_only" /\ RLe(rsi14_1H, R(50)))
         THEN R(5) ELSE R(0))

Min(a, b) == IF a <= b THEN a ELSE b

calculateConfidence(bias, rsi14_1D, rsi14_4H, rsi5, rsi9, hasFlip, rsi14Confirms, isSwing, rsi14_1H) ==
    LET score == RAdd(RAdd(BiasStrengthScore(rsi14_1D, rsi14_4H),
                           SetupQualityScore(bias, rsi5, rsi9)),
                      TriggerQualityScore(bias, hasFlip, rsi14Confirms,
                                          isSwing, rsi14_1H))
    IN  Min(100, MathRound(score))

-----------------------------------------------------------------------------
(* lib/signals.ts: the four signal checks                                  *)
(* A reason string is modelled by its leading mark ("ok" for the check     *)
(* mark, "fail" for the cross, "warn" for the warning sign, "star" for the *)
(* star, "plain" for none), its fixed text and the numbers formatted into  *)
(* it with toFixed(1), in tenths (-1 for undefined or N/A).                *)

Reason(mark, text, vals) == [mark |-> mark, text |-> text, vals |-> vals]

Fixed1(x) == IF IsNum(x) THEN ToFixed1(x) ELSE -1

\* a TimeframeAnalysis | null argument that is null
NullTF == [timeframe |-> "null"]
IsNullTF(tf) == tf.timeframe = "null"

Verdict(valid, reasons) == [valid |-> valid, reasons |-> reasons]

\* mutant: only the 5m flip is looked at
HasBullFlip_5mOnly(tf5m, tf1m) == tf5m.bullFlip

\* line 198: (tf1m && tf1m.bullFlip) || tf5m.bullFlip
HasBullFlip(tf5m, tf1m) == (~IsNullTF(tf1m) /\ tf1m.bullFlip) \/ tf5m.bullFlip

\* line 235: (tf1m && tf1m.bearFlip) || tf5m.bearFlip
HasBearFlip(tf5m, tf1m) == (~IsNullTF(tf1m) /\ tf1m.bearFlip) \/ tf5m.bearFlip

checkScalpLong(scalpBias, tf5m, tf1m, tf15m) ==
    IF scalpBias # "long_only"
    THEN Verdict(FALSE, <<Reason("plain", "Scalp bias is not Long Only", <<>>)>>)
    ELSE
    LET r1 == <<Reason("ok", "Scalp Bias: Long Only", <<>>)>>
    IN
    \* 5m oversold stretch
    IF tf5m.stretchState # "oversold"
    THEN Verdict(FALSE, Append(r1, Reason("fail", "5m not in oversold stretch", <<>>)))
    ELSE
    LET r2 == Append(r1, Reason("ok", "5m Oversold",
                                <<Fixed1(tf5m.rsi5), Fixed1(tf5m.rsi9)>>))
        \* Bull flip on 1m or 5m
        hasFlip == HasBullFlip(tf5m, tf1m)
    IN
    IF ~hasFlip
    THEN Verdict(FALSE, Append(r2, Reason("fail", "No bull flip on 1m/5m", <<>>)))
    ELSE
    LET r3 == Append(r2, Reason("ok", "Bull flip detected", <<>>))
        \* Optional: 15m RSI14 >= 45
        r4 == IF tf15m.rsi14 # NULL /\ RLt(tf15m.rsi14, R(45))
              THEN Append(r3, Reason("warn", "15m RSI14 < 45 - weak momentum",
                                     <<Fixed1(tf15m.rsi14)>>))
              ELSE IF tf15m.rsi14 # NULL
                   THEN Append(r3, Reason("ok", "15m RSI14 >= 45",
                                          <<Fixed1(tf15m.rsi14)>>))
                   ELSE r3
    IN  Verdict(TRUE, r4)

checkScalpShort(scalpBias, tf5m, tf1m, tf15m) ==
    IF scalpBias # "short_only"
    THEN Verdict(FALSE, <<Reason("plain", "Scalp bias is not Short Only", <<>>)>>)
    ELSE
    LET r1 == <<Reason("ok", "Scalp Bias: Short Only", <<>>)>>
    IN
    \* 5m overbought stretch
    IF tf5m.stretchState # "overbought"
    THEN Verdict(FALSE, Append(r1, Reason("fail", "5m not in overbought stretch", <<>>)))
    ELSE
    LET r2 == Append(r1, Reason("ok", "5m Overbought",
                                <<Fixed1(tf5m.rsi5), Fixed1(tf5m.rsi9)>>))
        \* Bear flip on 1m or 5m
        hasFlip == HasBearFlip(tf5m, tf1m)
    IN
    IF ~hasFlip
    THEN Verdict(FALSE, Append(r2, Reason("fail", "No bear flip on 1m/5m", <<>>)))
    ELSE
    LET r3 == Append(r2, Reason("ok", "Bear flip detected", <<>>))
        \* Optional: 15m RSI14 <= 55
        r4 == IF tf15m.rsi14 # NULL /\ RGt(tf15m.rsi14, R(55))
              THEN Append(r3, Reason("warn", "15m RSI14 > 55 - weak momentum",
                                     <<Fixed1(tf15m.rsi14)>>))
              ELSE IF tf15m.rsi14 # NULL
                   THEN Append(r3, Reason("ok", "15m RSI14 <= 55",
                                          <<Fixed1(tf15m.rsi14)>>))
                   ELSE r3
    IN  Verdict(TRUE, r4)

\* mutant: the reset zone leaves out its lower end
InResetZoneLong_Open(rsi14) == RGt(rsi14, R(35)) /\ RLe(rsi14, R(45))

\* line 270: tf4H.rsi14 >= 35 && tf4H.rsi14 <= 45
InResetZoneLong(rsi14) == RGe(rsi14, R(35)) /\ RLe(rsi14, R(45))

\* line 324: tf4H.rsi14 >= 55 && tf4H.rsi14 <= 65
InResetZoneShort(rsi14) == RGe(rsi14, R(55)) /\ RLe(rsi14, R(65))

checkSwingLong(swingBias, tf4H, tf1H, divergence) ==
    IF swingBias # "long_only"
    THEN Verdict(FALSE, <<Reason("plain",
                    "Swing bias is not Long Only (need 1D+4H bull)", <<>>)>>)
    ELSE
    LET r1 == <<Reason("ok", "Swing Bias: Long Only (1D Bull + 4H Bull)", <<>>)>>
    IN
    \* 4H reset zone: RSI14 between 35-45
    IF tf4H.rsi14 = NULL
    THEN Verdict(FALSE, Append(r1, Reason("fail", "4H RSI14 not available", <<>>)))
    ELSE
    LET inResetZone == InResetZoneLong(tf4H.rsi14)
        justExited == RGt(tf4H.rsi14, R(45)) /\ RLt(tf4H.rsi14, R(55))
                      /\ tf4H.rsi14Rising
    IN
    IF ~inResetZone /\ ~justExited
    THEN Verdict(FALSE, Append(r1, Reason("fail",
                    "4H RSI14 not in reset zone (35-45)", <<Fixed1(tf4H.rsi14)>>)))
    ELSE
    LET r2 == IF ~inResetZone
              THEN Append(r1, Reason("ok", "4H RSI14 crossed above 45 reset zone",
                                     <<Fixed1(tf4H.rsi14)>>))
              ELSE Append(r1, Reason("ok", "4H RSI14 in reset zone (35-45)",
                                     <<Fixed1(tf4H.rsi14)>>))
    IN
    \* RSI14(4H) turning up
    IF ~tf4H.rsi14Rising
    THEN Verdict(FALSE, Append(r2, Reason("fail", "4H RSI14 not rising", <<>>)))
    ELSE
    LET r3 == Append(r2, Reason("ok", "4H RSI14 is rising", <<>>))
    IN
    \* 1H RSI14 >= 50 and rising
    IF tf1H.rsi14 = NULL \/ RLt(tf1H.rsi14, R(50))
    THEN Verdict(FALSE, Append(r3, Reason("fail", "1H RSI14 < 50",
                                          <<Fixed1(tf1H.rsi14)>>)))
    ELSE IF ~tf1H.rsi14Rising
    THEN Verdict(FALSE, Append(r3, Reason("fail", "1H RSI14 not rising", <<>>)))
    ELSE
    LET r4 == Append(r3, Reason("ok", "1H RSI14 >= 50 and rising",
                                <<Fixed1(tf1H.rsi14)>>))
        \* Divergence boost
        r5 == IF divergence = "bullish"
              THEN Append(r4, Reason("star",
                        "A+ Signal: Bullish divergence detected", <<>>))
              ELSE r4
    IN  Verdict(TRUE, r5)

checkSwingShort(swingBias, tf4H, tf1H, divergence) ==
    IF swingBias # "short_only"
    THEN Verdict(FALSE, <<Reason("plain",
                    "Swing bias is not Short Only (need 1D+4H bear)", <<>>)>>)
    ELSE
    LET r1 == <<Reason("ok", "Swing Bias: Short Only (1D Bear + 4H Bear)", <<>>)>>
    IN
    \* 4H reset zone: RSI14 between 55-65
    IF tf4H.rsi14 = NULL
    THEN Verdict(FALSE, Append(r1, Reason("fail", "4H RSI14 not available", <<>>)))
    ELSE
    LET inResetZone == InResetZoneShort(tf4H.rsi14)
        justExited == RLt(tf4H.rsi14, R(55)) /\ RGt(tf4H.rsi14, R(45))
                      /\ tf4H.rsi14Falling
    IN
    IF ~inResetZone /\ ~justExited
    THEN Verdict(FALSE, Append(r1, Reason("fail",
                    "4H RSI14 not in reset zone (55-65)", <<Fixed1(tf4H.rsi14)>>)))
    ELSE
    LET r2 == IF ~inResetZone
              THEN Append(r1, Reason("ok", "4H RSI14 crossed below 55 reset zone",
                                     <<Fixed1(tf4H.rsi14)>>))
              ELSE Append(r1, Reason("ok", "4H RSI14 in reset zone (55-65)",
                                     <<Fixed1(tf4H.rsi14)>>))
    IN
    \* RSI14(4H) turning down
    IF ~tf4H.rsi14Falling
    THEN Verdict(FALSE, Append(r2, Reason("fail", "4H RSI14 not falling", <<>>)))
    ELSE
    LET r3 == Append(r2, Reason("ok", "4H RSI14 is falling", <<>>))
    IN
    \* 1H RSI14 <= 50 and falling
    IF tf1H.rsi14 = NULL \/ RGt(tf1H.rsi14, R(50))
    THEN Verdict(FALSE, Append(r3, Reason("fail", "1H RSI14 > 50",
                                          <<Fixed1(tf1H.rsi14)>>)))
    ELSE IF ~tf1H.rsi14Falling
    THEN Verdict(FALSE, Append(r3, Reason("fail", "1H RSI14 not falling", <<>>)))
    ELSE
    LET r4 == Append(r3, Reason("ok", "1H RSI14 <= 50 and falling",
                                <<Fixed1(tf1H.rsi14)>>))
        \* Divergence boost
        r5 == IF divergence = "bearish"
              THEN Append(r4, Reason("star",
                        "A+ Signal: Bearish divergence detected", <<>>))
              ELSE r4
    IN  Verdict(TRUE, r5)

-----------------------------------------------------------------------------
(* app/page.tsx, runSignalScanner: the TimeframeAnalysis of one timeframe  *)
(* rd holds what calcRSI returned for each period: {current, prev}, both   *)
(* null or both numbers.                                                   *)

CP(c, p) == [current |-> c, prev |-> p]
Absent == CP(NULL, NULL)

Rd(r5, r9, r14, r50, r75, r100, r200) ==
    [rsi5 |-> r5, rsi9 |-> r9, rsi14 |-> r14, rsi50 |-> r50,
     rsi75 |-> r75, rsi100 |-> r100, rsi200 |-> r200]

AnalyzeTimeframe(label, rd) ==
    LET rsi14Rising == /\ rd.rsi14.current # NULL
                       /\ rd.rsi14.prev # NULL
                       /\ RGt(rd.rsi14.current, rd.rsi14.prev)
        rsi14Falling == /\ rd.rsi14.current # NULL
                        /\ rd.rsi14.prev # NULL
                        /\ RLt(rd.rsi14.current, rd.rsi14.prev)
        \* Detect momentum flips
        bullFlip == detectBullFlip(rd.rsi5.current, rd.rsi9.current,
                                   rd.rsi5.prev, rd.rsi9.prev, rsi14Rising)
        bearFlip == detectBearFlip(rd.rsi5.current, rd.rsi9.current,
                                   rd.rsi5.prev, rd.rsi9.prev, rsi14Falling)
    IN  [timeframe |-> label,
         trendState |-> calculateTrendState(rd.rsi14.current, rd.rsi50.current,
                                            rd.rsi200.current),
         stretchState |-> calculateStretchState(rd.rsi5.current, rd.rsi9.current),
         rsi5 |-> rd.rsi5.current,
         rsi9 |-> rd.rsi9.current,
         rsi14 |-> rd.rsi14.current,
         rsi14Prev |-> rd.rsi14.prev,
         rsi50 |-> rd.rsi50.current,
         rsi75 |-> rd.rsi75.current,
         rsi100 |-> rd.rsi100.current,
         rsi200 |-> rd.rsi200.current,
         bullFlip |-> bullFlip,
         bearFlip |-> bearFlip,
         rsi14Rising |-> rsi14Rising,
         rsi14Falling |-> rsi14Falling]

-----------------------------------------------------------------------------
(* Applying a pure function: one call from idle, then the return *)

InitScanIdle ==
    /\ pc = "idle"
    /\ tfIdx = 0
    /\ pairIdx = 0
    /\ timeframes = <<>>
    /\ results = <<>>
    /\ signalResults = <<>>

InitIdle ==
    /\ fn = "idle"
    /\ args = <<>>
    /\ ret = <<>>
    /\ InitScanIdle
    /\ triggeredRef = {}
    /\ unreset = {}
    /\ alertsState = <<>>
    /\ symbols = {}
    /\ priceWs = 0
    /\ klineWs = 0
    /\ reconnectTimeout = 0
    /\ sockets = <<>>
    /\ timers = {}
    /\ timerCount = 0
    /\ quiet = FALSE
    /\ wsEvent = "none"

Call(f, a, r) ==
    /\ fn' = f
    /\ args' = a
    /\ ret' = r
    /\ UNCHANGED <<scanVars, alertVars, listVars, wsVars>>

Return ==
    /\ fn # "idle"
    /\ fn' = "idle"
    /\ args' = <<>>
    /\ ret' = <<>>
    /\ UNCHANGED <<scanVars, alertVars, listVars, wsVars>>

\* price series: every sequence of at most MaxLen prices in 1..MaxPrice
Series == UNION {[1..n -> 1..MaxPrice] : n \in 0..MaxLen}

CallCalculateRSI ==
    /\ fn = "idle"
    /\ \E closes \in Series, period \in 1..MaxPeriod :
           Call("calculateRSI", <<closes, period>>, calculateRSI(closes, period))

CallCalculateRSIArray ==
    /\ fn = "idle"
    /\ \E closes \in Series, period \in 1..MaxPeriod :
           Call("calculateRSIArray", <<closes, period>>,
                calculateRSIArray(closes, period))

NextRSI ==
    \/ CallCalculateRSI
    \/ CallCalculateRSIArray
    \/ Return

SpecRSI == InitIdle /\ [][NextRSI]_vars

-----------------------------------------------------------------------------
(* app/page.tsx: runSignalScanner                                          *)
(* The scan is cut at its awaits: the ticker request, one klines request   *)
(* per timeframe, and the evaluation of the pair that follows the last of  *)
(* them.  timeframes and results are the locals of the running scan.       *)

tfConfigs == <<"1m", "5m", "15m", "1h", "4h", "1d">>

\* const x = timeframes[label] || null
Lookup(tfs, label) == IF label \in DOMAIN tfs THEN tfs[label] ELSE NullTF

\* symbol.replace('USDT', '') of a symbol that ends with USDT
StripUSDT(symbol) == symbol.base

\* lines 1081-1109: swing signals first (higher priority)
SwingVerdict(tfs, swingBias) ==
    LET none == [signal |-> "null", reasons |-> <<>>, confidence |-> 0]
    IN
    IF swingBias = "long_only"
    THEN LET swingLong == checkSwingLong(swingBias, tfs["4h"], tfs["1h"], "null")
         IN  IF swingLong.valid
             THEN [signal |-> "swing_long",
                   reasons |-> swingLong.reasons,
                   confidence |-> calculateConfidence(
                       swingBias, tfs["1d"].rsi14, tfs["4h"].rsi14,
                       tfs["4h"].rsi5, tfs["4h"].rsi9,
                       TRUE, tfs["1h"].rsi14Rising, TRUE, tfs["1h"].rsi14)]
             ELSE none
    ELSE IF swingBias = "short_only"
    THEN LET swingShort == checkSwingShort(swingBias, tfs["4h"], tfs["1h"], "null")
         IN  IF swingShort.valid
             THEN [signal |-> "swing_short",
                   reasons |-> swingShort.reasons,
                   confidence |-> calculateConfidence(
                       swingBias, tfs["1d"].rsi14, tfs["4h"].rsi14,
                       tfs["4h"].rsi5, tfs["4h"].rsi9,
                       TRUE, tfs["1h"].rsi14Falling, TRUE, tfs["1h"].rsi14)]
             ELSE none
    ELSE none

\* timeframes['1m']?.bullFlip ?? false
FlipOrFalse(tf, flip) == IF IsNullTF(tf) THEN FALSE ELSE tf[flip]

\* mutant: the scalp checks run whether or not a swing signal was found
ScalpChecksRun_AfterSwing(signal, tfs) ==
    "5m" \in DOMAIN tfs /\ "15m" \in DOMAIN tfs

\* line 1112: !signal && timeframes['5m'] && timeframes['15m']
ScalpChecksRun(signal, tfs) ==
    signal = "null" /\ "5m" \in DOMAIN tfs /\ "15m" \in DOMAIN tfs

\* lines 1111-1140: scalp signals if no swing signal
ScalpVerdict(tfs, scalpBias, swing) ==
    IF ~ScalpChecksRun(swing.signal, tfs)
    THEN swing
    ELSE
    IF scalpBias = "long_only"
    THEN LET scalpLong == checkScalpLong(scalpBias, tfs["5m"], Lookup(tfs, "1m"),
                                         tfs["15m"])
         IN  IF scalpLong.valid
             THEN [signal |-> "scalp_long",
                   reasons |-> scalpLong.reasons,
                   confidence |-> calculateConfidence(
                       scalpBias, tfs["1d"].rsi14, tfs["4h"].rsi14,
                       tfs["5m"].rsi5, tfs["5m"].rsi9,
                       tfs["5m"].bullFlip \/ FlipOrFalse(Lookup(tfs, "1m"), "bullFlip"),
                       tfs["15m"].rsi14 # NULL /\ RGe(tfs["15m"].rsi14, R(45)),
                       FALSE, UNDEF)]
             ELSE swing
    ELSE IF scalpBias = "short_only"
    THEN LET scalpShort == checkScalpShort(scalpBias, tfs["5m"], Lookup(tfs, "1m"),
                                           tfs["15m"])
         IN  IF scalpShort.valid
             THEN [signal |-> "scalp_short",
                   reasons |-> scalpShort.reasons,
                   confidence |-> calculateConfidence(
                       scalpBias, tfs["1d"].rsi14, tfs["4h"].rsi14,
                       tfs["5m"].rsi5, tfs["5m"].rsi9,
                       tfs["5m"].bearFlip \/ FlipOrFalse(Lookup(tfs, "1m"), "bearFlip"),
                       tfs["15m"].rsi14 # NULL /\ RLe(tfs["15m"].rsi14, R(55)),
                       FALSE, UNDEF)]
             ELSE swing
    ELSE swing

\* mutant: a valid signal is listed whatever its confidence
IsActiveSignal_NoThreshold(signal, confidence) == signal # "null"

\* mutant: a signal is reported from a confidence of 30
IsActiveSignal_Threshold30(signal, confidence) == signal # "null" /\ confidence >= 30

\* line 1143: signal && confidence >= 40
IsActiveSignal(signal, confidence) == signal # "null" /\ confidence >= 40

\* lines 1164-1168: the reasons of a watched pair
WatchingReasons(swingBias, scalpBias) ==
    <<Reason("plain",
             IF swingBias = "long_only" THEN "Swing bias: long only"
             ELSE IF swingBias = "short_only" THEN "Swing bias: short only"
                  ELSE "No swing bias", <<>>),
      Reason("plain",
             IF scalpBias = "long_only" THEN "Scalp bias: long only"
             ELSE IF scalpBias = "short_only" THEN "Scalp bias: short only"
                  ELSE "No scalp bias", <<>>),
      Reason("plain", "Waiting for setup/trigger...", <<>>)>>

\* lines 1068-1172: what one pair adds to results (nothing, or one entry)
PairEntries(symbol, tfs) ==
    \* Skip if we don't have enough timeframes
    IF ~("4h" \in DOMAIN tfs /\ "1h" \in DOMAIN tfs /\ "1d" \in DOMAIN tfs)
    THEN <<>>
    ELSE
    LET swingBias == calculateSwingBias(tfs["1d"].trendState, tfs["4h"].trendState)
        scalpBias == calculateScalpBias(tfs["1h"].trendState, tfs["4h"].trendState)
        regime == calculateRegime(
                      tfs["4h"].rsi75, tfs["4h"].rsi100, tfs["4h"].rsi200,
                      tfs["1d"].rsi75, tfs["1d"].rsi100, tfs["1d"].rsi200)
        v == ScalpVerdict(tfs, scalpBias, SwingVerdict(tfs, swingBias))
    IN
    IF IsActiveSignal(v.signal, v.confidence)
    THEN <<[symbol |-> StripUSDT(symbol),
            swingBias |-> swingBias,
            scalpBias |-> scalpBias,
            regime |-> regime,
            signal |-> v.signal,
            confidence |-> v.confidence,
            reasons |-> v.reasons,
            timeframes |-> tfs,
            divergence |-> "null"]>>
    ELSE IF swingBias # "no_trade" \/ scalpBias # "no_trade"
    THEN <<[symbol |-> StripUSDT(symbol),
            swingBias |-> swingBias,
            scalpBias |-> scalpBias,
            regime |-> regime,
            signal |-> "null",
            confidence |-> 0,
            reasons |-> WatchingReasons(swingBias, scalpBias),
            timeframes |-> tfs,
            divergence |-> "null"]>>
    ELSE <<>>

\* lines 1176-1180: the comparator of the final sort
CompareResults(a, b) ==
    IF a.signal # "null" /\ b.signal = "null" THEN -1
    ELSE IF a.signal = "null" /\ b.signal # "null" THEN 1
         ELSE b.confidence - a.confidence

\* Array.prototype.sort is stable: x goes behind everything it does not precede
RECURSIVE InsertSorted(_, _)
InsertSorted(sorted, x) ==
    IF sorted = <<>> THEN <<x>>
    ELSE IF CompareResults(x, Head(sorted)) < 0 THEN <<x>> \o sorted
         ELSE <<Head(sorted)>> \o InsertSorted(Tail(sorted), x)

RECURSIVE SortResults(_)
SortResults(list) ==
    IF list = <<>> THEN <<>>
    ELSE InsertSorted(SortResults(SubSeq(list, 1, Len(list) - 1)), list[Len(list)])

\* results.slice(0, 30)
Slice30(list) == SubSeq(list, 1, Min(30, Len(list)))

\* the pairs of the ticker list, each symbol ending with USDT
top50 == [i \in 1..MaxPairs |-> [base |-> i, quote |-> "USDT"]]

\* the responses drawn for the klines request of one timeframe: Missing is
\* a failed request or fewer than 15 candles, anything else the readings that
\* calcRSI takes from the candles
Missing == [klines |-> "missing"]
Fall == CP(R(50), R(60))
Rise == CP(R(50), R(40))
Flat == CP(R(50), R(50))

KlinesDraws(label) ==
    CASE label = "1m" ->
           {Missing} \cup
           {Rd(CP(R(60), R(40)), Flat, Rise, Absent, Absent, Absent, Absent)}
      [] label = "5m" ->
           {Rd(CP(R(35), R(20)), CP(R(30), R(40)), Rise, Flat, Flat, Flat, Absent),
            Rd(CP(R(20), R(30)), CP(R(30), R(40)), Flat, Flat, Flat, Flat, Absent),
            Rd(CP(R(70), R(85)), CP(R(75), R(60)), Fall, Flat, Flat, Flat, Absent)}
      [] label = "15m" ->
           {Missing} \cup
           {Rd(Flat, Flat, CP(R(40), R(40)), Flat, Flat, Flat, Flat),
            Rd(Flat, Flat, CP(R(50), R(50)), Flat, Flat, Flat, Flat)}
      [] label = "1h" ->
           {Rd(Flat, Flat, CP(R(55), R(50)), CP(R(55), R(55)), Flat, Flat, Flat),
            Rd(Flat, Flat, CP(R(55), R(60)), CP(R(45), R(45)), Flat, Flat, Flat),
            Rd(Flat, Flat, CP(R(45), R(50)), CP(R(45), R(45)), Flat, Flat, Flat)}
      [] label = "4h" ->
           {Rd(CP(R(55), R(55)), CP(R(55), R(55)), CP(R(51), R(50)),
               CP(R(55), R(55)), CP(R(55), R(55)), CP(R(55), R(55)), Absent),
            Rd(CP(R(70), R(70)), CP(R(60), R(60)), CP(R(49), R(50)),
               CP(R(45), R(45)), CP(R(45), R(45)), CP(R(45), R(45)), Absent),
            Rd(CP(R(45), R(45)), CP(R(45), R(45)), CP(R(40), R(38)),
               CP(R(55), R(55)), CP(R(45), R(45)), Flat, Absent),
            Rd(Flat, Flat, CP(R(50), R(49)), CP(R(55), R(55)), Flat, Flat, Absent),
            Rd(CP(R(70), R(70)), CP(R(60), R(60)), CP(R(50), R(51)),
               CP(R(45), R(45)), Flat, Flat, Absent)}
      [] label = "1d" ->
           {Missing} \cup
           {Rd(Flat, Flat, CP(R(52), R(52)), CP(R(55), R(55)),
               CP(R(55), R(55)), Absent, Absent),
            Rd(Flat, Flat, CP(R(80), R(80)), CP(R(55), R(55)),
               CP(R(55), R(55)), CP(R(55), R(55)), CP(R(55), R(55))),
            Rd(Flat, Flat, CP(R(48), R(48)), CP(R(45), R(45)),
               CP(R(45), R(45)), CP(R(45), R(45)), Absent)}

\* lines 981-997: the scan starts; the ticker request answers or throws
StartScan ==
    /\ pc = "idle"
    /\ fn = "idle"
    /\ results' = <<>>
    /\ timeframes' = <<>>
    /\ \/ /\ MaxPairs > 0
          /\ pc' = "fetch"
          /\ pairIdx' = 1
          /\ tfIdx' = 1
       \/ /\ pc' = "done"
          /\ UNCHANGED <<pairIdx, tfIdx>>
    /\ UNCHANGED <<signalResults, pureVars, alertVars, listVars, wsVars>>

\* lines 1011-1066: one klines request and the analysis built from it
FetchTimeframe ==
    /\ pc = "fetch"
    /\ \E draw \in KlinesDraws(tfConfigs[tfIdx]) :
          timeframes' =
              IF draw = Missing THEN timeframes
              ELSE [l \in DOMAIN timeframes \cup {tfConfigs[tfIdx]} |->
                      IF l = tfConfigs[tfIdx]
                      THEN AnalyzeTimeframe(tfConfigs[tfIdx], draw)
                      ELSE timeframes[l]]
    /\ IF tfIdx < Len(tfConfigs)
       THEN tfIdx' = tfIdx + 1 /\ pc' = "fetch"
       ELSE tfIdx' = tfIdx /\ pc' = "evaluate"
    /\ UNCHANGED <<pairIdx, results, signalResults, pureVars, alertVars, listVars, wsVars>>

\* lines 1068-1173: the pair is evaluated and the loop goes to the next pair
EvaluatePair ==
    /\ pc = "evaluate"
    /\ results' = results \o PairEntries(top50[pairIdx], timeframes)
    /\ timeframes' = <<>>
    /\ tfIdx' = 1
    /\ IF pairIdx < MaxPairs
       THEN pairIdx' = pairIdx + 1 /\ pc' = "fetch"
       ELSE pairIdx' = pairIdx /\ pc' = "sort"
    /\ UNCHANGED <<signalResults, pureVars, alertVars, listVars, wsVars>>

\* lines 1175-1181: results are sorted and published
FinishScan ==
    /\ pc = "sort"
    /\ results' = SortResults(results)
    /\ signalResults' = Slice30(SortResults(results))
    /\ pc' = "done"
    /\ UNCHANGED <<pairIdx, tfIdx, timeframes, pureVars, alertVars, listVars, wsVars>>

NextScanner ==
    \/ StartScan
    \/ FetchTimeframe
    \/ EvaluatePair
    \/ FinishScan

SpecScanner == InitIdle /\ [][NextScanner]_vars

-----------------------------------------------------------------------------
(* Claims about the RSI calculator *)

StrictlyIncreasing(s) == \A i \in 1..(Len(s) - 1) : s[i] < s[i + 1]
StrictlyDecreasing(s) == \A i \in 1..(Len(s) - 1) : s[i] > s[i + 1]

\* C1: calculateRSI returns null exactly when closes.length < period + 1;
\* for a series of positive prices with at least period + 1 points it returns
\* a number in the closed range [0, 100].
C1_RSINullOrInRange ==
    fn = "calculateRSI" =>
        LET closes == args[1]
            period == args[2]
        IN  /\ (ret = NULL) <=> (Len(closes) < period + 1)
            /\ Len(closes) >= period + 1 =>
                    /\ IsNum(ret)
                    /\ 0 <= ret.num
                    /\ ret.num <= 100 * ret.den

\* C1 witness: a series long enough to be smoothed gives a reading strictly
\* inside the range.
C1_Witness ==
    /\ fn = "calculateRSI"
    /\ Len(args[1]) >= args[2] + 2
    /\ IsNum(ret)
    /\ RLt(R(0), ret)
    /\ RLt(ret, R(100))

\* C2: for a series with at least period + 1 points calculateRSI returns
\* exactly 100 when the series is strictly increasing and exactly 0 when it is
\* strictly decreasing.
C2_MonotoneSeries ==
    (fn = "calculateRSI" /\ Len(args[1]) >= args[2] + 1) =>
        /\ StrictlyIncreasing(args[1]) => ret = R(100)
        /\ StrictlyDecreasing(args[1]) => ret = R(0)

\* C2 witness: a strictly decreasing series that runs through the smoothing
\* loop and reads 0.
C2_Witness ==
    /\ fn = "calculateRSI"
    /\ Len(args[1]) >= args[2] + 2
    /\ StrictlyDecreasing(args[1])
    /\ ret = R(0)

\* C3: calculateRSIArray(closes, period) has closes.length - period elements,
\* its k-th element equals calculateRSI of the first period + 1 + k closes
\* (100 when the average loss is 0), and it is empty for a shorter series.
C3_ArrayMatchesScalar ==
    fn = "calculateRSIArray" =>
        LET closes == args[1]
            period == args[2]
        IN  IF Len(closes) < period + 1 THEN ret = <<>>
            ELSE /\ Len(ret) = Len(closes) - period
                 /\ \A k \in 0..(Len(ret) - 1) :
                        ret[k + 1] =
                            calculateRSI(SubSeq(closes, 1, period + 1 + k), period)

-----------------------------------------------------------------------------
(* The signal functions applied to drawn inputs *)

InRange(x) == RGe(x, R(0)) /\ RLe(x, R(100))

\* the readings at t and 1/Den below and above it, kept inside [0, 100]
Near(t) == {x \in {Rat(t * Den + e, Den) : e \in {-1, 0, 1}} : InRange(x)}

TrendStates == {"bull", "bear", "neutral"}
BiasTypes == {"long_only", "short_only", "no_trade"}
Divergences == {"bullish", "bearish", "null"}

\* a current reading with a lower, an equal and a higher previous reading
Moves(c) == {CP(c, R(0)), CP(c, c), CP(c, R(100))}

\* an analysis in which only the RSI14 readings are present
Only14(label, r14) ==
    AnalyzeTimeframe(label, Rd(Absent, Absent, r14, Absent, Absent, Absent, Absent))

\* an analysis with the fast readings and RSI14 present
Fast(label, r5, r9, r14) ==
    AnalyzeTimeframe(label, Rd(r5, r9, r14, Absent, Absent, Absent, Absent))

TrendReadings == {NULL} \cup Near(0) \cup Near(50) \cup Near(100)

CallCalculateTrendState ==
    /\ fn = "idle"
    /\ \E rsi14 \in TrendReadings, rsi50 \in TrendReadings, rsi200 \in TrendReadings :
           Call("calculateTrendState", <<rsi14, rsi50, rsi200>>,
                calculateTrendState(rsi14, rsi50, rsi200))

CallCalculateSwingBias ==
    /\ fn = "idle"
    /\ \E trend1D \in TrendStates, trend4H \in TrendStates :
           Call("calculateSwingBias", <<trend1D, trend4H>>,
                calculateSwingBias(trend1D, trend4H))

CallCalculateScalpBias ==
    /\ fn = "idle"
    /\ \E trend1H \in TrendStates, trend4H \in TrendStates :
           Call("calculateScalpBias", <<trend1H, trend4H>>,
                calculateScalpBias(trend1H, trend4H))

Swing4HDraws ==
    {Only14("4h", Absent)} \cup
    {Only14("4h", m) : m \in UNION {Moves(c) :
        c \in Near(35) \cup Near(45) \cup Near(55) \cup Near(65)}}

Swing1HDraws ==
    {Only14("1h", Absent)} \cup
    {Only14("1h", m) : m \in UNION {Moves(c) : c \in Near(50)}}

CallCheckSwingLong ==
    /\ fn = "idle"
    /\ \E swingBias \in BiasTypes, tf4H \in Swing4HDraws, tf1H \in Swing1HDraws,
          divergence \in Divergences :
           Call("checkSwingLong", <<swingBias, tf4H, tf1H, divergence>>,
                checkSwingLong(swingBias, tf4H, tf1H, divergence))

CallCheckSwingShort ==
    /\ fn = "idle"
    /\ \E swingBias \in BiasTypes, tf4H \in Swing4HDraws, tf1H \in Swing1HDraws,
          divergence \in Divergences :
           Call("checkSwingShort", <<swingBias, tf4H, tf1H, divergence>>,
                checkSwingShort(swingBias, tf4H, tf1H, divergence))

Scalp5mDraws ==
    {Fast("5m", r5, r9, r14) :
        r5 \in {Absent, CP(R(20), R(10)), CP(R(20), R(60)), CP(R(50), R(50)),
                CP(R(80), R(60))},
        r9 \in {CP(R(15), R(40)), CP(R(40), R(40)), CP(R(85), R(40))},
        r14 \in Moves(R(50))}

Scalp1mDraws ==
    {NullTF} \cup
    {Fast("1m", r5, CP(R(50), R(50)), r14) :
        r5 \in {CP(R(60), R(40)), CP(R(50), R(50)), CP(R(40), R(60))},
        r14 \in Moves(R(50))}

Scalp15mDraws ==
    {Only14("15m", Absent)} \cup
    {Only14("15m", CP(c, c)) : c \in Near(45) \cup Near(55)}

CallCheckScalpLong ==
    /\ fn = "idle"
    /\ \E scalpBias \in BiasTypes, tf5m \in Scalp5mDraws, tf1m \in Scalp1mDraws,
          tf15m \in Scalp15mDraws :
           Call("checkScalpLong", <<scalpBias, tf5m, tf1m, tf15m>>,
                checkScalpLong(scalpBias, tf5m, tf1m, tf15m))

CallCheckScalpShort ==
    /\ fn = "idle"
    /\ \E scalpBias \in BiasTypes, tf5m \in Scalp5mDraws, tf1m \in Scalp1mDraws,
          tf15m \in Scalp15mDraws :
           Call("checkScalpShort", <<scalpBias, tf5m, tf1m, tf15m>>,
                checkScalpShort(scalpBias, tf5m, tf1m, tf15m))

Booleans == {TRUE, FALSE}

CallCalculateConfidence ==
    /\ fn = "idle"
    /\ \E bias \in BiasTypes,
          rsi14_1D \in {NULL, R(10), R(70)} \cup Near(50),
          rsi14_4H \in {NULL, R(30), Rat(50 * Den - 1, Den), Rat(70 * Den + 1, Den)},
          rsi5 \in {NULL, R(50), Rat(80 * Den + 1, Den)} \cup Near(20),
          rsi9 \in {NULL, R(35), R(65), Rat(50 * Den + 1, Den)},
          hasFlip \in Booleans, rsi14Confirms \in Booleans, isSwing \in Booleans,
          rsi14_1H \in {UNDEF, NULL} \cup Near(50) :
           Call("calculateConfidence",
                <<bias, rsi14_1D, rsi14_4H, rsi5, rsi9, hasFlip, rsi14Confirms,
                  isSwing, rsi14_1H>>,
                calculateConfidence(bias, rsi14_1D, rsi14_4H, rsi5, rsi9, hasFlip,
                                    rsi14Confirms, isSwing, rsi14_1H))

\* readings at and 1/Den either side of the four stretch thresholds, the ends
\* of the range, and absent
StretchReadings == {NULL, R(0), R(100)} \cup Near(25) \cup Near(30) \cup Near(70) \cup Near(75)

CallCalculateStretchState ==
    /\ fn = "idle"
    /\ \E rsi5 \in StretchReadings, rsi9 \in StretchReadings :
           Call("calculateStretchState", <<rsi5, rsi9>>,
                calculateStretchState(rsi5, rsi9))

FlipReadings == {NULL, R(40), R(45), R(48), R(50)}

CallDetectBullFlip ==
    /\ fn = "idle"
    /\ \E rsi5 \in FlipReadings, rsi9 \in FlipReadings, rsi5Prev \in FlipReadings, rsi9Prev \in FlipReadings, rsi14Rising \in BOOLEAN :
           Call("detectBullFlip", <<rsi5, rsi9, rsi5Prev, rsi9Prev, rsi14Rising>>,
                detectBullFlip(rsi5, rsi9, rsi5Prev, rsi9Prev, rsi14Rising))

CallDetectBearFlip ==
    /\ fn = "idle"
    /\ \E rsi5 \in FlipReadings, rsi9 \in FlipReadings, rsi5Prev \in FlipReadings, rsi9Prev \in FlipReadings, rsi14Falling \in BOOLEAN :
           Call("detectBearFlip", <<rsi5, rsi9, rsi5Prev, rsi9Prev, rsi14Falling>>,
                detectBearFlip(rsi5, rsi9, rsi5Prev, rsi9Prev, rsi14Falling))

\* absent, and readings at and 1/Den either side of 50
RegimeReadings == {NULL} \cup Near(50)

CallCalculateRegime ==
    /\ fn = "idle"
    /\ \E rsi75_4H \in RegimeReadings, rsi100_4H \in RegimeReadings, rsi200_4H \in RegimeReadings, rsi75_1D \in RegimeReadings, rsi100_1D \in RegimeReadings, rsi200_1D \in RegimeReadings :
           Call("calculateRegime",
                <<rsi75_4H, rsi100_4H, rsi200_4H, rsi75_1D, rsi100_1D, rsi200_1D>>,
                calculateRegime(rsi75_4H, rsi100_4H, rsi200_4H,
                                rsi75_1D, rsi100_1D, rsi200_1D))

NextSignals ==
    \/ CallCalculateTrendState
    \/ CallCalculateSwingBias
    \/ CallCalculateScalpBias
    \/ CallCheckSwingLong
    \/ CallCheckScalpLong
    \/ CallCheckScalpShort
    \/ CallCalculateConfidence
    \/ CallCalculateStretchState
    \/ CallDetectBullFlip
    \/ CallDetectBearFlip
    \/ CallCalculateRegime
    \/ CallCheckSwingShort
    \/ Return

SpecSignals == InitIdle /\ [][NextSignals]_vars

-----------------------------------------------------------------------------
(* Claims about the signal functions *)

\* C4: calculateTrendState returns bull iff rsi14 and rsi50 are present and
\* both >= 50 and rsi200 is absent or >= 50; it returns neutral whenever rsi14
\* or rsi50 is absent and whenever neither the bull nor the bear condition
\* (both <= 50, rsi200 absent or <= 50) holds.
C4_TrendState ==
    fn = "calculateTrendState" =>
        LET rsi14 == args[1]
            rsi50 == args[2]
            rsi200 == args[3]
            present == IsNum(rsi14) /\ IsNum(rsi50)
            bullCond == /\ present
                        /\ rsi14.num >= 50 * rsi14.den
                        /\ rsi50.num >= 50 * rsi50.den
                        /\ (~IsNum(rsi200) \/ rsi200.num >= 50 * rsi200.den)
            bearCond == /\ present
                        /\ rsi14.num <= 50 * rsi14.den
                        /\ rsi50.num <= 50 * rsi50.den
                        /\ (~IsNum(rsi200) \/ rsi200.num <= 50 * rsi200.den)
        IN  /\ (ret = "bull") <=> bullCond
            /\ ~present => ret = "neutral"
            /\ (~bullCond /\ ~bearCond) => ret = "neutral"

\* C4 witness: bull with the 200-period reading absent.
C4_Witness ==
    /\ fn = "calculateTrendState"
    /\ args[3] = NULL
    /\ ret = "bull"

\* C5: calculateSwingBias returns long_only iff both trend states are bull,
\* short_only iff both are bear, and no_trade for every other combination.
C5_SwingBias ==
    fn = "calculateSwingBias" =>
        /\ (ret = "long_only") <=> (args[1] = "bull" /\ args[2] = "bull")
        /\ (ret = "short_only") <=> (args[1] = "bear" /\ args[2] = "bear")
        /\ ret \in {"long_only", "short_only", "no_trade"}

\* C5 witness: a daily bull against a 4h bear gives no_trade.
C5_Witness ==
    /\ fn = "calculateSwingBias"
    /\ args = <<"bull", "bear">>
    /\ ret = "no_trade"

\* C6: calculateScalpBias returns long_only whenever at least one of the two
\* trend states is bull (also when the other is bear), short_only exactly when
\* at least one is bear and neither is bull, and no_trade exactly when both are
\* neutral.
C6_ScalpBias ==
    fn = "calculateScalpBias" =>
        LET anyBull == args[1] = "bull" \/ args[2] = "bull"
            anyBear == args[1] = "bear" \/ args[2] = "bear"
        IN  /\ anyBull => ret = "long_only"
            /\ (ret = "short_only") <=> (anyBear /\ ~anyBull)
            /\ (ret = "no_trade") <=> (args[1] = "neutral" /\ args[2] = "neutral")

\* C6 witness: a 1h bear against a 4h bull resolves to long_only.
C6_Witness ==
    /\ fn = "calculateScalpBias"
    /\ args = <<"bear", "bull">>
    /\ ret = "long_only"

BonusReason == Reason("star", "A+ Signal: Bullish divergence detected", <<>>)

\* C7: checkSwingLong returns valid iff swingBias = long_only, the 4h RSI14 is
\* present and either in [35,45] or strictly between 45 and 55 with the 4h
\* RSI14 rising, the 4h RSI14 is rising, and the 1h RSI14 is present, >= 50
\* and rising.  The divergence argument never changes the valid flag; it only
\* adds a bonus reason when it is bullish.
C7_SwingLongValid ==
    fn = "checkSwingLong" =>
        LET swingBias == args[1]
            tf4H == args[2]
            tf1H == args[3]
            divergence == args[4]
            r4 == tf4H.rsi14
            r1 == tf1H.rsi14
            zone == /\ IsNum(r4)
                    /\ \/ (35 * r4.den <= r4.num /\ r4.num <= 45 * r4.den)
                       \/ (45 * r4.den < r4.num /\ r4.num < 55 * r4.den
                           /\ tf4H.rsi14Rising)
            confirm == IsNum(r1) /\ r1.num >= 50 * r1.den /\ tf1H.rsi14Rising
            plain == checkSwingLong(swingBias, tf4H, tf1H, "null")
        IN  /\ ret.valid <=>
                (swingBias = "long_only" /\ zone /\ tf4H.rsi14Rising /\ confirm)
            /\ ret.valid = plain.valid
            /\ ret.reasons = IF ret.valid /\ divergence = "bullish"
                             THEN Append(plain.reasons, BonusReason)
                             ELSE plain.reasons
            /\ \A i \in DOMAIN plain.reasons : plain.reasons[i] # BonusReason

\* C7 witness: a valid swing long from the lower end of the reset zone, with
\* the bonus reason of a bullish divergence.
C7_Witness ==
    /\ fn = "checkSwingLong"
    /\ ret.valid
    /\ args[2].rsi14 = R(35)
    /\ args[4] = "bullish"
    /\ ret.reasons[Len(ret.reasons)] = BonusReason

\* the 15m reason of a valid scalp verdict: none when the 15m RSI14 is absent,
\* a warning on the weak side of the threshold, a positive reason otherwise
Scalp15mReasonOK(verdict, tf15m, weak) ==
    IF ~IsNum(tf15m.rsi14)
    THEN /\ Len(verdict.reasons) = 3
         /\ \A i \in 1..3 : verdict.reasons[i].mark = "ok"
    ELSE /\ Len(verdict.reasons) = 4
         /\ \A i \in 1..3 : verdict.reasons[i].mark = "ok"
         /\ verdict.reasons[4].mark = IF weak THEN "warn" ELSE "ok"

\* C8: checkScalpLong returns valid iff scalpBias = long_only, the 5m
\* stretchState is oversold and a bull flip is present on the 5m snapshot or
\* on a non-null 1m snapshot; the 15m RSI14 never changes the valid flag
\* (below 45 a warning reason, at or above 45 a positive reason, absent no
\* reason).  checkScalpShort is the mirror (short_only, overbought, bear flip,
\* 15m threshold 55).
C8_ScalpValid ==
    /\ fn = "checkScalpLong" =>
        LET scalpBias == args[1]
            tf5m == args[2]
            tf1m == args[3]
            tf15m == args[4]
            flip == tf5m.bullFlip \/ (tf1m.timeframe # "null" /\ tf1m.bullFlip)
        IN  /\ ret.valid <=>
                (scalpBias = "long_only" /\ tf5m.stretchState = "oversold" /\ flip)
            /\ ret.valid => Scalp15mReasonOK(ret, tf15m,
                                tf15m.rsi14.num < 45 * tf15m.rsi14.den)
    /\ fn = "checkScalpShort" =>
        LET scalpBias == args[1]
            tf5m == args[2]
            tf1m == args[3]
            tf15m == args[4]
            flip == tf5m.bearFlip \/ (tf1m.timeframe # "null" /\ tf1m.bearFlip)
        IN  /\ ret.valid <=>
                (scalpBias = "short_only" /\ tf5m.stretchState = "overbought" /\ flip)
            /\ ret.valid => Scalp15mReasonOK(ret, tf15m,
                                tf15m.rsi14.num > 55 * tf15m.rsi14.den)

\* C8 witness: a valid scalp long whose flip comes from the 1m snapshot alone
\* and whose 15m RSI14 is below 45.
C8_Witness ==
    /\ fn = "checkScalpLong"
    /\ ret.valid
    /\ ~args[2].bullFlip
    /\ IsNum(args[4].rsi14)
    /\ RLt(args[4].rsi14, R(45))
    /\ ret.reasons[4].mark = "warn"

\* |x - 50| of a present reading, as a rational
Dist50(x) == RAbs(RSub(x, R(50)))

\* C9: for readings absent or in [0,100] calculateConfidence returns an
\* integer in [0,100] equal to the rounded sum of bias strength
\* min(40, |dailyRSI14-50| + |4hRSI14-50|) (0 if either is absent), setup
\* quality min(30, max(0, 50 - min(rsi5,rsi9))) for long_only or
\* min(30, max(0, max(rsi5,rsi9) - 50)) for short_only (0 if rsi5 or rsi9 is
\* absent or bias is no_trade), and trigger quality 15 if hasFlip plus 10 if
\* rsi14Confirms plus 5 only when isSwing and the 1h RSI14 is present and on
\* the bias side of 50.  Rounding is to the nearest integer, a tie going up.
C9_Confidence ==
    fn = "calculateConfidence" =>
        LET bias == args[1]
            rsi14_1D == args[2]
            rsi14_4H == args[3]
            rsi5 == args[4]
            rsi9 == args[5]
            hasFlip == args[6]
            rsi14Confirms == args[7]
            isSwing == args[8]
            rsi14_1H == args[9]
            strength == IF IsNum(rsi14_1D) /\ IsNum(rsi14_4H)
                        THEN RMin(R(40), RAdd(Dist50(rsi14_1D), Dist50(rsi14_4H)))
                        ELSE R(0)
            lo == RMin(rsi5, rsi9)
            hi == RMax(rsi5, rsi9)
            setup == IF ~(IsNum(rsi5) /\ IsNum(rsi9)) \/ bias = "no_trade" THEN R(0)
                     ELSE IF bias = "long_only"
                          THEN RMin(R(30), RMax(R(0), RSub(R(50), lo)))
                          ELSE RMin(R(30), RMax(R(0), RSub(hi, R(50))))
            aligned == /\ isSwing
                       /\ IsNum(rsi14_1H)
                       /\ \/ (bias = "long_only" /\ rsi14_1H.num >= 50 * rsi14_1H.den)
                          \/ (bias = "short_only" /\ rsi14_1H.num <= 50 * rsi14_1H.den)
            trigger == (IF hasFlip THEN 15 ELSE 0) + (IF rsi14Confirms THEN 10 ELSE 0)
                       + (IF aligned THEN 5 ELSE 0)
            sum == RAdd(RAdd(strength, setup), R(trigger))
        IN  /\ ret \in 0..100
            \* ret - 1/2 <= sum < ret + 1/2
            /\ (2 * ret - 1) * sum.den <= 2 * sum.num
            /\ 2 * sum.num < (2 * ret + 1) * sum.den

\* C9 witness: a scalp call (no 1h bonus although the 1h reading is aligned)
\* whose sum is not an integer and is rounded.
C9_Witness ==
    /\ fn = "calculateConfidence"
    /\ args[1] = "long_only"
    /\ ~args[8]
    /\ IsNum(args[9]) /\ RGe(args[9], R(50))
    /\ args[6] /\ args[7]
    /\ IsNum(args[2]) /\ IsNum(args[3]) /\ IsNum(args[4]) /\ IsNum(args[5])
    /\ RAdd(Dist50(args[2]), Dist50(args[3])).den # 1
    /\ RLt(RAdd(Dist50(args[2]), Dist50(args[3])), R(40))
    /\ RGe(RMin(args[4], args[5]), R(50))
    /\ ret > 25


-----------------------------------------------------------------------------
(* Claims about the signal scanner *)

\* the conditions of the four checks, read off the snapshots an entry carries
EntrySwingLong(e) ==
    LET tf4H == e.timeframes["4h"]
        tf1H == e.timeframes["1h"]
        r4 == tf4H.rsi14
        r1 == tf1H.rsi14
    IN  /\ e.swingBias = "long_only"
        /\ IsNum(r4)
        /\ \/ (35 * r4.den <= r4.num /\ r4.num <= 45 * r4.den)
           \/ (45 * r4.den < r4.num /\ r4.num < 55 * r4.den)
        /\ tf4H.rsi14Rising
        /\ IsNum(r1) /\ r1.num >= 50 * r1.den /\ tf1H.rsi14Rising

EntrySwingShort(e) ==
    LET tf4H == e.timeframes["4h"]
        tf1H == e.timeframes["1h"]
        r4 == tf4H.rsi14
        r1 == tf1H.rsi14
    IN  /\ e.swingBias = "short_only"
        /\ IsNum(r4)
        /\ \/ (55 * r4.den <= r4.num /\ r4.num <= 65 * r4.den)
           \/ (45 * r4.den < r4.num /\ r4.num < 55 * r4.den)
        /\ tf4H.rsi14Falling
        /\ IsNum(r1) /\ r1.num <= 50 * r1.den /\ tf1H.rsi14Falling

EntryScalpLong(e) ==
    /\ e.scalpBias = "long_only"
    /\ {"5m", "15m"} \subseteq DOMAIN e.timeframes
    /\ e.timeframes["5m"].stretchState = "oversold"
    /\ \/ e.timeframes["5m"].bullFlip
       \/ ("1m" \in DOMAIN e.timeframes /\ e.timeframes["1m"].bullFlip)

EntryScalpShort(e) ==
    /\ e.scalpBias = "short_only"
    /\ {"5m", "15m"} \subseteq DOMAIN e.timeframes
    /\ e.timeframes["5m"].stretchState = "overbought"
    /\ \/ e.timeframes["5m"].bearFlip
       \/ ("1m" \in DOMAIN e.timeframes /\ e.timeframes["1m"].bearFlip)

\* the biases of an entry are those of the trend states of its snapshots
EntryBiases(e) ==
    LET t1D == e.timeframes["1d"].trendState
        t4H == e.timeframes["4h"].trendState
        t1H == e.timeframes["1h"].trendState
    IN  /\ e.swingBias = "long_only" <=> (t1D = "bull" /\ t4H = "bull")
        /\ e.swingBias = "short_only" <=> (t1D = "bear" /\ t4H = "bear")
        /\ e.scalpBias = "long_only" <=> (t1H = "bull" \/ t4H = "bull")
        /\ e.scalpBias = "short_only" <=>
               (t1H # "bull" /\ t4H # "bull" /\ (t1H = "bear" \/ t4H = "bear"))

EntryOK(e) ==
    /\ {"4h", "1h", "1d"} \subseteq DOMAIN e.timeframes
    /\ EntryBiases(e)
    /\ e.signal \in {"null", "swing_long", "swing_short", "scalp_long", "scalp_short"}
    /\ e.signal = "swing_long" => EntrySwingLong(e)
    /\ e.signal = "swing_short" => EntrySwingShort(e)
    /\ e.signal = "scalp_long" => EntryScalpLong(e)
    /\ e.signal = "scalp_short" => EntryScalpShort(e)
    /\ e.signal # "null" => e.confidence >= 40
    /\ e.signal = "null" =>
           /\ e.confidence = 0
           /\ (e.swingBias # "no_trade" \/ e.scalpBias # "no_trade")

\* the pair under evaluation has its three required snapshots and none of the
\* 1d, 4h and 1h trends gives a bias
NoBiasPair ==
    /\ pc = "evaluate"
    /\ {"4h", "1h", "1d"} \subseteq DOMAIN timeframes
    /\ timeframes["4h"].trendState = "neutral"
    /\ timeframes["1h"].trendState = "neutral"

\* C10: in every result list of runSignalScanner (the list being built and the
\* list published), an entry with a signal satisfies the conditions of the
\* matching check and has confidence >= 40; an entry without a signal has
\* confidence 0 and a swing or scalp bias other than no_trade; and evaluating a
\* pair whose biases are both no_trade adds no entry.
C10_ResultEntries ==
    /\ [](/\ \A i \in 1..Len(results) : EntryOK(results[i])
          /\ \A i \in 1..Len(signalResults) : EntryOK(signalResults[i]))
    /\ [][NoBiasPair => results' = results]_vars

\* C10 witness: a finished scan that published a scalp long with confidence of
\* at least 40.
C10_Witness ==
    /\ pc = "done"
    /\ Len(signalResults) >= 1
    /\ signalResults[1].signal = "scalp_long"
    /\ signalResults[1].confidence >= 40
    /\ EntryScalpLong(signalResults[1])


\* C11: per pair and per scan the swing checks come before the scalp checks
\* and one signal at most is reported: an entry whose snapshots satisfy a swing
\* check never carries a scalp signal, and an entry with a scalp signal
\* satisfies no swing check.
C11_SwingBeforeScalp ==
    \A list \in {results, signalResults} :
        \A i \in 1..Len(list) :
            LET e == list[i]
                swingValid == EntrySwingLong(e) \/ EntrySwingShort(e)
            IN  /\ swingValid => e.signal \notin {"scalp_long", "scalp_short"}
                /\ e.signal \in {"scalp_long", "scalp_short"} => ~swingValid
                /\ e.signal = "swing_long" => EntrySwingLong(e)
                /\ e.signal = "swing_short" => EntrySwingShort(e)

\* C11 witness: a published swing long of a pair whose 5m, 1m and 15m
\* snapshots also satisfy the scalp long check.
C11_Witness ==
    /\ pc = "done"
    /\ Len(signalResults) >= 1
    /\ signalResults[1].signal = "swing_long"
    /\ EntrySwingLong(signalResults[1])
    /\ EntryScalpLong(signalResults[1])


-----------------------------------------------------------------------------
(* lib/analysis.ts: calculateConfluence *)

\* crypto.timeframes[tf]?.[rsiPeriod]: undefined without the timeframe or
\* without the period, otherwise the stored reading (a number or null)
ReadingAt(crypto, tf, rsiPeriod) ==
    IF tf \notin DOMAIN crypto THEN UNDEF
    ELSE IF rsiPeriod \notin DOMAIN crypto[tf] THEN UNDEF
         ELSE crypto[tf][rsiPeriod]

\* mutant: a reading of exactly 30 counts as oversold
IsOversoldReading_Inclusive(rsi) == RLe(rsi, R(30))

\* line 26: rsi < 30
IsOversoldReading(rsi) == RLt(rsi, R(30))

\* lines 21-28: the loop over the listed timeframes
RECURSIVE ConfluenceCounts(_, _, _)
ConfluenceCounts(crypto, rsiPeriod, listed) ==
    IF listed = <<>>
    THEN [oversoldCount |-> 0, overboughtCount |-> 0, validCount |-> 0]
    ELSE LET before == ConfluenceCounts(crypto, rsiPeriod,
                           SubSeq(listed, 1, Len(listed) - 1))
             rsi == ReadingAt(crypto, listed[Len(listed)], rsiPeriod)
         IN  IF rsi # NULL /\ rsi # UNDEF
             THEN [oversoldCount |->
                       before.oversoldCount + (IF IsOversoldReading(rsi) THEN 1 ELSE 0),
                   overboughtCount |->
                       before.overboughtCount +
                       (IF ~IsOversoldReading(rsi) /\ RGt(rsi, R(70)) THEN 1 ELSE 0),
                   validCount |-> before.validCount + 1]
             ELSE before

\* mutant: the sell-side thresholds are tested first
ConfluenceSignal_SellFirst(oversoldCount, overboughtCount) ==
    IF overboughtCount >= 3 THEN "strong_sell"
    ELSE IF overboughtCount >= 2 THEN "sell"
    ELSE IF oversoldCount >= 3 THEN "strong_buy"
    ELSE IF oversoldCount >= 2 THEN "buy"
    ELSE "neutral"

\* lines 33-37: the buy-side thresholds, then the sell-side thresholds
ConfluenceSignal(oversoldCount, overboughtCount) ==
    IF oversoldCount >= 3 THEN "strong_buy"
    ELSE IF oversoldCount >= 2 THEN "buy"
    ELSE IF overboughtCount >= 3 THEN "strong_sell"
    ELSE IF overboughtCount >= 2 THEN "sell"
    ELSE "neutral"

calculateConfluence(crypto, rsiPeriod, listed) ==
    LET c == ConfluenceCounts(crypto, rsiPeriod, listed)
        netScore == c.oversoldCount - c.overboughtCount
        score == IF c.validCount > 0
                 THEN MathRound(RMul(RDiv(R(netScore), R(c.validCount)), R(100)))
                 ELSE 0
        signal == ConfluenceSignal(c.oversoldCount, c.overboughtCount)
    IN  [oversoldCount |-> c.oversoldCount,
         overboughtCount |-> c.overboughtCount,
         totalTimeframes |-> c.validCount,
         signal |-> signal,
         score |-> score]

-----------------------------------------------------------------------------
(* lib/analysis.ts: findLocalExtremes, detectDivergence (local extremes)   *)
(* Arrays keep the 0-based indices of the code: At(values, i) is values[i]. *)

At(values, i) == values[i + 1]

\* values.slice(from, to) for 0 <= from <= to <= values.length
Slice(values, from, to) == SubSeq(values, from + 1, to)

\* values.slice(-count): the last count elements, the whole array when count
\* is 0 (slice(-0) is slice(0)) or exceeds the length
SliceLast(values, count) ==
    IF count = 0 \/ count >= Len(values) THEN values
    ELSE SubSeq(values, Len(values) - count + 1, Len(values))

\* Math.max(...window), Math.min(...window) of a non-empty window
RECURSIVE SeqMax(_)
SeqMax(window) ==
    IF Len(window) = 1 THEN window[1]
    ELSE LET rest == SeqMax(Tail(window))
         IN  IF Head(window) > rest THEN Head(window) ELSE rest

RECURSIVE SeqMin(_)
SeqMin(window) ==
    IF Len(window) = 1 THEN window[1]
    ELSE LET rest == SeqMin(Tail(window))
         IN  IF Head(window) < rest THEN Head(window) ELSE rest

\* lines 139-152: the indices i in [lookback, length - lookback) whose value
\* is the maximum (minimum) of values[i - lookback .. i + lookback]
RECURSIVE ExtremesFrom(_, _, _, _)
ExtremesFrom(values, isMax, lookback, i) ==
    IF i >= Len(values) - lookback THEN <<>>
    ELSE LET window == Slice(values, i - lookback, i + lookback + 1)
             current == At(values, i)
             hit == IF isMax THEN current = SeqMax(window)
                    ELSE current = SeqMin(window)
         IN  (IF hit THEN <<i>> ELSE <<>>)
             \o ExtremesFrom(values, isMax, lookback, i + 1)

\* mutant: the loop starts one index late
findLocalExtremes_LateStart(values, isMax, lookback) ==
    ExtremesFrom(values, isMax, lookback, lookback + 1)

findLocalExtremes(values, isMax, lookback) ==
    ExtremesFrom(values, isMax, lookback, lookback)

\* mutant: one series of sufficient length is enough
TooShort_Both(closes, rsiValues, lookbackCandles) ==
    Len(closes) < lookbackCandles /\ Len(rsiValues) < lookbackCandles

\* line 159
TooShort(closes, rsiValues, lookbackCandles) ==
    Len(closes) < lookbackCandles \/ Len(rsiValues) < lookbackCandles

\* mutant: the two extremes may lie anywhere in the window
AlignedInTime_Anywhere(priceIndex, rsiIndex) == TRUE

\* lines 184, 205: Math.abs(lastPriceHigh - lastRSIHigh) <= 5
AlignedInTime(priceIndex, rsiIndex) == Abs(priceIndex - rsiIndex) <= 5

\* lines 173-190
BearishDivergence(recentCloses, recentRSI) ==
    LET priceHighs == findLocalExtremes(recentCloses, TRUE, 3)
        rsiHighs == findLocalExtremes(recentRSI, TRUE, 3)
    IN  /\ Len(priceHighs) >= 2 /\ Len(rsiHighs) >= 2
        /\ LET lastPriceHigh == priceHighs[Len(priceHighs)]
               prevPriceHigh == priceHighs[Len(priceHighs) - 1]
               lastRSIHigh == rsiHighs[Len(rsiHighs)]
               prevRSIHigh == rsiHighs[Len(rsiHighs) - 1]
           IN  /\ At(recentCloses, lastPriceHigh) > At(recentCloses, prevPriceHigh)
               /\ At(recentRSI, lastRSIHigh) < At(recentRSI, prevRSIHigh)
               /\ AlignedInTime(lastPriceHigh, lastRSIHigh)

\* lines 194-211
BullishDivergence(recentCloses, recentRSI) ==
    LET priceLows == findLocalExtremes(recentCloses, FALSE, 3)
        rsiLows == findLocalExtremes(recentRSI, FALSE, 3)
    IN  /\ Len(priceLows) >= 2 /\ Len(rsiLows) >= 2
        /\ LET lastPriceLow == priceLows[Len(priceLows)]
               prevPriceLow == priceLows[Len(priceLows) - 1]
               lastRSILow == rsiLows[Len(rsiLows)]
               prevRSILow == rsiLows[Len(rsiLows) - 1]
           IN  /\ At(recentCloses, lastPriceLow) < At(recentCloses, prevPriceLow)
               /\ At(recentRSI, lastRSILow) > At(recentRSI, prevRSILow)
               /\ AlignedInTime(lastPriceLow, lastRSILow)

\* lines 154-220: the type of the result, "null" for no result
detectDivergence(closes, rsiValues, lookbackCandles) ==
    IF TooShort(closes, rsiValues, lookbackCandles) THEN "null"
    ELSE LET recentCloses == SliceLast(closes, lookbackCandles)
             recentRSI == SliceLast(rsiValues, lookbackCandles)
         IN  IF BearishDivergence(recentCloses, recentRSI) THEN "bearish"
             ELSE IF BullishDivergence(recentCloses, recentRSI) THEN "bullish"
                  ELSE "null"

\* the labels, the periods and the per-timeframe period maps of the drawn
\* crypto rows
ConfluenceLabels == {"1h", "4h", "1d"}

PeriodMaps ==
    {[p \in {} |-> NULL]} \cup
    {[p \in {14} |-> x] :
        x \in {NULL, R(25), R(28), Rat(30 * Den - 1, Den), R(30), R(70), R(72)}} \cup
    {[p \in {7, 14} |-> IF p = 7 THEN R(20) ELSE R(80)]}

LabelLists == UNION {[1..n -> ConfluenceLabels] : n \in 0..MaxListed}

CallCalculateConfluence ==
    /\ fn = "idle"
    /\ \E present \in SUBSET ConfluenceLabels :
       \E crypto \in [present -> PeriodMaps], rsiPeriod \in {7, 14},
          listed \in LabelLists :
           Call("calculateConfluence", <<crypto, rsiPeriod, listed>>,
                calculateConfluence(crypto, rsiPeriod, listed))

\* the window shapes of the drawn series: a level of 10, up to two marked
\* candles, and from index rampFrom on a ramp of one per candle
Shape(marks, rampFrom, step) ==
    [k \in 1..Lookback |->
        IF (k - 1) \in DOMAIN marks THEN marks[k - 1]
        ELSE IF k - 1 >= rampFrom THEN 10 + step * (k - rampFrom)
             ELSE 10]

NoMarks == [i \in {} |-> 10]
OneMark(i, v) == [j \in {i} |-> v]
TwoMarks(i, v, j, w) == [k \in {i, j} |-> IF k = i THEN v ELSE w]

MarkPairs == {<<3, 7>>, <<3, 13>>, <<5, 9>>, <<9, 13>>, <<6, 12>>}

WindowShapes ==
    {Shape(NoMarks, Lookback, 0), Shape(NoMarks, 0, 1), Shape(NoMarks, 0, -1)}
    \cup {Shape(OneMark(i, v), Lookback, 0) : i \in 0..(Lookback - 1), v \in {9, 11}}
    \cup {Shape(TwoMarks(pq[1], vw[1], pq[2], vw[2]), Lookback, 0) :
             pq \in MarkPairs,
             vw \in {<<11, 12>>, <<12, 11>>, <<9, 8>>, <<8, 9>>}}
    \cup {Shape(TwoMarks(3, 12, 7, 11), 10, 1), Shape(TwoMarks(3, 8, 7, 9), 10, -1)}
    \cup {Shape(TwoMarks(7, 8, 8, 11), 10, -1), Shape(TwoMarks(3, 8, 7, 11), 12, -1)}

\* a window as it is, behind one older candle, or without its oldest candle
LongSeries ==
    WindowShapes
    \cup {<<20>> \o w : w \in WindowShapes}
    \cup {Tail(w) : w \in WindowShapes}

ShortSeries == UNION {[1..n -> {1, 2}] : n \in 0..3}

CallDetectDivergence ==
    /\ fn = "idle"
    /\ \/ \E closes \in LongSeries, rsiValues \in LongSeries,
             lookbackCandles \in {0, 7, Lookback} :
              Call("detectDivergence", <<closes, rsiValues, lookbackCandles>>,
                   detectDivergence(closes, rsiValues, lookbackCandles))
       \/ \E closes \in ShortSeries, rsiValues \in ShortSeries,
             lookbackCandles \in 0..4 :
              Call("detectDivergence", <<closes, rsiValues, lookbackCandles>>,
                   detectDivergence(closes, rsiValues, lookbackCandles))

\* rows with a reading of 20, 50 or 80 (or none) on each of six timeframes,
\* read through the list of the dashboard, longer lists, and a list that
\* names two timeframes three times each
WideLabels == <<"1h", "4h", "1d", "1w", "15m", "5m">>

WideLists == {SubSeq(WideLabels, 1, n) : n \in 4..Len(WideLabels)} \cup {<<"1h", "1h", "1h", "4h", "4h", "4h">>}

WideReadings == {NULL, R(20), R(50), R(80)}

CallCalculateConfluenceWide ==
    /\ fn = "idle"
    /\ \E readings \in [1..Len(WideLabels) -> WideReadings], listed \in WideLists :
        LET crypto == [l \in {WideLabels[i] : i \in DOMAIN WideLabels} |->
                          [p \in {14} |-> readings[CHOOSE i \in DOMAIN WideLabels : WideLabels[i] = l]]]
        IN  Call("calculateConfluence", <<crypto, 14, listed>>,
                 calculateConfluence(crypto, 14, listed))

NextAnalysis ==
    \/ CallCalculateConfluence
    \/ CallCalculateConfluenceWide
    \/ Return

SpecAnalysis == InitIdle /\ [][NextAnalysis]_vars

\* series of up to MaxLen values in 1..MaxPrice, and every lookback that
\* leaves candidates in the longest of them plus one that leaves none
ExtremeSeries == UNION {[1..n -> 1..MaxPrice] : n \in 0..MaxLen}

ExtremeLookbacks == 0..((MaxLen + 1) \div 2)

CallFindLocalExtremes ==
    /\ fn = "idle"
    /\ \E values \in ExtremeSeries, isMax \in BOOLEAN, lookback \in ExtremeLookbacks :
           Call("findLocalExtremes", <<values, isMax, lookback>>,
                findLocalExtremes(values, isMax, lookback))

NextDivergence ==
    \/ CallFindLocalExtremes
    \/ CallDetectDivergence
    \/ Return

SpecDivergence == InitIdle /\ [][NextDivergence]_vars

-----------------------------------------------------------------------------
(* lib/backtest.ts: runBacktest                                            *)
(* A kline is reduced to its open time and its close.  The result is       *)
(* [isNull |-> TRUE] for null.                                             *)

MinExtraCandles == 50

NullResult == [isNull |-> TRUE]

\* lines 47-51
intervalMap ==
    [tf \in {"1h", "4h", "1d"} |->
        CASE tf = "1h" -> [interval |-> "1h", candlesFor1h |-> R(1),
                           candlesFor4h |-> R(4), candlesFor24h |-> R(24)]
          [] tf = "4h" -> [interval |-> "4h", candlesFor1h |-> Rat(1, 4),
                           candlesFor4h |-> R(1), candlesFor24h |-> R(6)]
          [] tf = "1d" -> [interval |-> "1d", candlesFor1h |-> R(0),
                           candlesFor4h |-> R(0), candlesFor24h |-> R(1)]]

\* Math.ceil of a rational
MathCeil(a) == -((-a.num) \div a.den)

\* mutant: the scan runs to the last candle
EndIdx_LastCandle(length, config) == length

\* line 76: data.length - Math.ceil(config.candlesFor24h) - 1
EndIdx(length, config) == length - MathCeil(config.candlesFor24h) - 1

\* ((data[idx].close - entryPrice) / entryPrice) * 100
ReturnPct(data, idx, entryPrice) ==
    RMul(RDiv(R(At(data, idx).close - entryPrice), R(entryPrice)), R(100))

\* lines 79-111: the signal of candle i, of type "null" when the loop moves
\* on without one
SignalAt(data, rsiValues, rsiPeriod, config, oversoldThreshold, overboughtThreshold, i) ==
    IF i - rsiPeriod >= Len(rsiValues) THEN [type |-> "null"]
    ELSE
    LET rsi == At(rsiValues, i - rsiPeriod)
        type == IF RLt(rsi, oversoldThreshold) THEN "oversold"
                ELSE IF RGt(rsi, overboughtThreshold) THEN "overbought"
                     ELSE "null"
        entryPrice == At(data, i).close
        idx1h == Min(i + MathCeil(config.candlesFor1h), Len(data) - 1)
        idx4h == Min(i + MathCeil(config.candlesFor4h), Len(data) - 1)
        idx24h == Min(i + MathCeil(config.candlesFor24h), Len(data) - 1)
    IN
    IF type = "null" THEN [type |-> "null"]
    ELSE [timestamp |-> At(data, i).timestamp,
          price |-> entryPrice,
          rsi |-> rsi,
          type |-> type,
          return1h |-> IF RGt(config.candlesFor1h, R(0))
                       THEN ReturnPct(data, idx1h, entryPrice) ELSE NULL,
          return4h |-> IF RGt(config.candlesFor4h, R(0))
                       THEN ReturnPct(data, idx4h, entryPrice) ELSE NULL,
          return24h |-> ReturnPct(data, idx24h, entryPrice)]

HasType(s) == s.type # "null"

\* lines 75-112: for (let i = startIdx; i < endIdx; i++), in candle order
ScanSignals(data, rsiValues, rsiPeriod, config, oversoldThreshold, overboughtThreshold) ==
    LET startIdx == rsiPeriod
        endIdx == EndIdx(Len(data), config)
        scanned == [k \in 1..(endIdx - startIdx) |->
                       SignalAt(data, rsiValues, rsiPeriod, config,
                                oversoldThreshold, overboughtThreshold,
                                startIdx + k - 1)]
    IN  SelectSeq(scanned, HasType)

IsOversold(s) == s.type = "oversold"
IsOverbought(s) == s.type = "overbought"

\* sigs.filter(s => s.type === type)
FilterType(sigs, type) ==
    IF type = "oversold" THEN SelectSeq(sigs, IsOversold)
    ELSE SelectSeq(sigs, IsOverbought)

Has1h(s) == s.return1h # NULL
Has4h(s) == s.return4h # NULL

\* sigs.filter(s => s[field] !== null).map(s => s[field])
ReturnsOf(sigs, field) ==
    LET kept == IF field = "return1h" THEN SelectSeq(sigs, Has1h)
                ELSE IF field = "return4h" THEN SelectSeq(sigs, Has4h)
                     ELSE sigs
    IN  [k \in 1..Len(kept) |-> kept[k][field]]

IsUp(r) == RGt(r, R(0))
IsDown(r) == RLt(r, R(0))

\* returns.filter(winCondition).length
CountWins(returns, expectUp) ==
    IF expectUp THEN Len(SelectSeq(returns, IsUp)) ELSE Len(SelectSeq(returns, IsDown))

\* returns.reduce((a, b) => a + b, 0); the sum is exact, so it is taken by
\* halves to keep the evaluation shallow
RECURSIVE SumReturns(_)
SumReturns(returns) ==
    IF Len(returns) = 0 THEN R(0)
    ELSE IF Len(returns) = 1 THEN returns[1]
    ELSE LET half == Len(returns) \div 2
         IN  RAdd(SumReturns(SubSeq(returns, 1, half)),
                  SumReturns(SubSeq(returns, half + 1, Len(returns))))

WinRate(returns, expectUp) ==
    RMul(Rat(CountWins(returns, expectUp), Len(returns)), R(100))

AvgReturn(returns) == RDiv(SumReturns(returns), R(Len(returns)))

\* lines 118-151
calcStats(sigs, expectUp) ==
    IF Len(sigs) = 0
    THEN [count |-> 0, winRate1h |-> R(0), winRate4h |-> R(0), winRate24h |-> R(0),
          avgReturn1h |-> R(0), avgReturn4h |-> R(0), avgReturn24h |-> R(0)]
    ELSE LET returns1h == ReturnsOf(sigs, "return1h")
             returns4h == ReturnsOf(sigs, "return4h")
             returns24h == ReturnsOf(sigs, "return24h")
         IN  [count |-> Len(sigs),
              winRate1h |-> IF Len(returns1h) > 0 THEN WinRate(returns1h, expectUp)
                            ELSE R(0),
              winRate4h |-> IF Len(returns4h) > 0 THEN WinRate(returns4h, expectUp)
                            ELSE R(0),
              winRate24h |-> WinRate(returns24h, expectUp),
              avgReturn1h |-> IF Len(returns1h) > 0 THEN AvgReturn(returns1h)
                              ELSE R(0),
              avgReturn4h |-> IF Len(returns4h) > 0 THEN AvgReturn(returns4h)
                              ELSE R(0),
              avgReturn24h |-> AvgReturn(returns24h)]

\* klines.map(k => ({ timestamp: k[0], close: parseFloat(String(k[4])) }))
KlineData(klines) ==
    [k \in 1..Len(klines) |-> [timestamp |-> klines[k].openTime,
                               close |-> klines[k].close]]

CloseOf(data) == [k \in 1..Len(data) |-> data[k].close]

\* signals.slice(-50)
Last50(signals) ==
    IF Len(signals) <= 50 THEN signals
    ELSE SubSeq(signals, Len(signals) - 49, Len(signals))

\* lines 37-165; response is the answer of the klines request
runBacktest(timeframe, response, rsiPeriod, oversoldThreshold, overboughtThreshold) ==
    IF timeframe \notin DOMAIN intervalMap THEN NullResult
    ELSE IF ~response.ok THEN NullResult
    ELSE IF Len(response.klines) < rsiPeriod + MinExtraCandles THEN NullResult
    ELSE
    LET config == intervalMap[timeframe]
        data == KlineData(response.klines)
        closes == CloseOf(data)
        rsiValues == calculateRSIArray(closes, rsiPeriod)
        signals == ScanSignals(data, rsiValues, rsiPeriod, config,
                               oversoldThreshold, overboughtThreshold)
    IN  [isNull |-> FALSE,
         signals |-> Last50(signals),
         oversoldStats |-> calcStats(FilterType(signals, "oversold"), TRUE),
         overboughtStats |-> calcStats(FilterType(signals, "overbought"), FALSE)]

\* the drawn klines: closes alternating between 2 and 1, or level at 2, with
\* at most one candle moved to 1 or 4, near the start of the series or near
\* the end of one of the three scan ranges
BacktestPeriods == {1}

MovedCandles(length) ==
    {1, length - 26, length - 25, length - 8, length - 7,
     length - 3, length - 2, length - 1}

Klines(length, alternating, moved, moveTo) ==
    [k \in 1..length |->
        [openTime |-> k - 1,
         close |-> IF (k - 1) \in moved THEN moveTo
                   ELSE IF alternating /\ (k % 2 = 0) THEN 1 ELSE 2]]

KlinesDrawn(rsiPeriod) ==
    {Klines(length, alternating, moved, moveTo) :
        length \in (rsiPeriod + MinExtraCandles - 1)..
                   (rsiPeriod + MinExtraCandles + MaxSurplus),
        alternating \in Booleans,
        moved \in {{}} \cup {{i} : i \in MovedCandles(rsiPeriod + MinExtraCandles)},
        moveTo \in {1, 4}}

CallRunBacktest ==
    /\ fn = "idle"
    /\ \E timeframe \in {"1h", "4h", "1d", "15m"}, rsiPeriod \in BacktestPeriods,
          oversoldThreshold \in {R(0), R(30)}, overboughtThreshold \in {R(70), R(100)} :
          \/ \E klines \in KlinesDrawn(rsiPeriod) :
                Call("runBacktest",
                     <<timeframe, [ok |-> TRUE, klines |-> klines], rsiPeriod,
                       oversoldThreshold, overboughtThreshold>>,
                     runBacktest(timeframe, [ok |-> TRUE, klines |-> klines],
                                 rsiPeriod, oversoldThreshold, overboughtThreshold))
          \/ Call("runBacktest",
                  <<timeframe, [ok |-> FALSE, klines |-> <<>>], rsiPeriod,
                    oversoldThreshold, overboughtThreshold>>,
                  runBacktest(timeframe, [ok |-> FALSE, klines |-> <<>>],
                              rsiPeriod, oversoldThreshold, overboughtThreshold))

NextBacktest ==
    \/ CallRunBacktest
    \/ Return

SpecBacktest == InitIdle /\ [][NextBacktest]_vars

-----------------------------------------------------------------------------
(* Claims about the analysis functions *)

\* the listed positions whose reading at the period is a number
PresentAt(crypto, rsiPeriod, listed) ==
    {i \in 1..Len(listed) :
        /\ listed[i] \in DOMAIN crypto
        /\ rsiPeriod \in DOMAIN crypto[listed[i]]
        /\ IsNum(crypto[listed[i]][rsiPeriod])}

\* C12: calculateConfluence counts in totalTimeframes the listed timeframes
\* whose reading at the period is present, in oversoldCount those below 30, in
\* overboughtCount those above 70 (never both); score is the integer nearest
\* to 100 * (oversoldCount - overboughtCount) / totalTimeframes, 0 without
\* present readings, within [-100, 100]; signal is strong_buy from 3 oversold,
\* buy from 2, else strong_sell from 3 overbought, sell from 2, else neutral.
C12_Confluence ==
    fn = "calculateConfluence" =>
        LET crypto == args[1]
            rsiPeriod == args[2]
            listed == args[3]
            valid == PresentAt(crypto, rsiPeriod, listed)
            value(i) == crypto[listed[i]][rsiPeriod]
            low == {i \in valid : value(i).num < 30 * value(i).den}
            high == {i \in valid : value(i).num > 70 * value(i).den}
            net == Cardinality(low) - Cardinality(high)
            total == Cardinality(valid)
        IN  /\ ret.totalTimeframes = total
            /\ ret.oversoldCount = Cardinality(low)
            /\ ret.overboughtCount = Cardinality(high)
            /\ low \cap high = {}
            /\ ret.score >= -100 /\ ret.score <= 100
            /\ total = 0 => ret.score = 0
            /\ total > 0 =>
                  /\ 2 * (100 * net - ret.score * total) <= total
                  /\ 2 * (ret.score * total - 100 * net) < total
            /\ ret.signal =
                  (IF Cardinality(low) >= 3 THEN "strong_buy"
                   ELSE IF Cardinality(low) >= 2 THEN "buy"
                   ELSE IF Cardinality(high) >= 3 THEN "strong_sell"
                   ELSE IF Cardinality(high) >= 2 THEN "sell"
                   ELSE "neutral")

\* C12 witness: readings 25, 28 and 72 on three listed timeframes give counts
\* 2 and 1, score 33 and signal buy.
C12_Witness ==
    /\ fn = "calculateConfluence"
    /\ args[3] = <<"1h", "4h", "1d">>
    /\ args[2] = 14
    /\ ReadingAt(args[1], "1h", 14) = R(25)
    /\ ReadingAt(args[1], "4h", 14) = R(28)
    /\ ReadingAt(args[1], "1d", 14) = R(72)
    /\ ret = [oversoldCount |-> 2, overboughtCount |-> 1, totalTimeframes |-> 3,
              signal |-> "buy", score |-> 33]


\* the local highs and lows (radius 3) of a window, by 0-based index
LocalHighs(w) ==
    {i \in 3..(Len(w) - 4) : \A j \in (i - 3)..(i + 3) : w[j + 1] <= w[i + 1]}

LocalLows(w) ==
    {i \in 3..(Len(w) - 4) : \A j \in (i - 3)..(i + 3) : w[j + 1] >= w[i + 1]}

Latest(S) == CHOOSE i \in S : \A j \in S : j <= i

\* the last count points of a series
LastPoints(series, count) ==
    [k \in 1..count |-> series[Len(series) - count + k]]

\* the bearish test of the claim on two windows
ClaimBearish(wp, wr) ==
    LET ph == LocalHighs(wp)
        rh == LocalHighs(wr)
    IN  /\ Cardinality(ph) >= 2 /\ Cardinality(rh) >= 2
        /\ wp[Latest(ph) + 1] > wp[Latest(ph \ {Latest(ph)}) + 1]
        /\ wr[Latest(rh) + 1] < wr[Latest(rh \ {Latest(rh)}) + 1]
        /\ Latest(ph) - Latest(rh) <= 5 /\ Latest(rh) - Latest(ph) <= 5

\* the mirrored test on local lows
ClaimBullish(wp, wr) ==
    LET pl == LocalLows(wp)
        rl == LocalLows(wr)
    IN  /\ Cardinality(pl) >= 2 /\ Cardinality(rl) >= 2
        /\ wp[Latest(pl) + 1] < wp[Latest(pl \ {Latest(pl)}) + 1]
        /\ wr[Latest(rl) + 1] > wr[Latest(rl \ {Latest(rl)}) + 1]
        /\ Latest(pl) - Latest(rl) <= 5 /\ Latest(rl) - Latest(pl) <= 5

DivergenceAsClaimed(closes, rsiValues, lookbackCandles) ==
    LET wp == LastPoints(closes, lookbackCandles)
        wr == LastPoints(rsiValues, lookbackCandles)
    IN  IF ClaimBearish(wp, wr) THEN "bearish"
        ELSE IF ClaimBullish(wp, wr) THEN "bullish"
             ELSE "null"

\* C13: for series that each have at least lookbackCandles points,
\* detectDivergence returns bearish iff, on the last lookbackCandles points of
\* each series, both windows have at least 2 local highs (radius 3), the most
\* recent price high is strictly above the previous one, the most recent
\* oscillator high strictly below the previous one, and the two most recent
\* highs are at most 5 indices apart; bullish iff that test fails and the
\* mirrored test on local lows holds; no divergence otherwise.
C13_Divergence ==
    (/\ fn = "detectDivergence"
     /\ Len(args[1]) >= args[3]
     /\ Len(args[2]) >= args[3])
    => ret = DivergenceAsClaimed(args[1], args[2], args[3])

\* the same statement for windows of at least one point
C13_DivergencePositiveLookback ==
    (/\ fn = "detectDivergence"
     /\ args[3] >= 1
     /\ Len(args[1]) >= args[3]
     /\ Len(args[2]) >= args[3])
    => ret = DivergenceAsClaimed(args[1], args[2], args[3])


\* C14: detectDivergence always returns bearish, bullish or no divergence,
\* for windows of every length including those too short for a local extreme,
\* and returns no divergence whenever either series has fewer than
\* lookbackCandles points, whatever the data.
C14_DivergenceTotal ==
    fn = "detectDivergence" =>
        /\ ret \in {"bearish", "bullish", "null"}
        /\ (Len(args[1]) < args[3] \/ Len(args[2]) < args[3]) => ret = "null"
        /\ Len(args[1]) < 7 => ret = "null"

\* C14 witness: the oscillator series is one point short of lookbackCandles
\* and the call returns no divergence although the data at hand would pass the
\* bearish test.
C14_Witness ==
    /\ fn = "detectDivergence"
    /\ Len(args[1]) >= args[3]
    /\ Len(args[2]) = args[3] - 1
    /\ BearishDivergence(SliceLast(args[1], args[3]), SliceLast(args[2], args[3]))
    /\ ret = "null"


-----------------------------------------------------------------------------
(* Claims about the backtest *)

\* the candles among from..to whose oscillator value (the value of the array
\* form for that candle) is beyond a threshold
ThresholdCandles(klines, rsiPeriod, low, high, from, to) ==
    LET values == calculateRSIArray([k \in 1..Len(klines) |-> klines[k].close],
                                    rsiPeriod)
    IN  {i \in from..to :
            LET v == values[i - rsiPeriod + 1]
            IN  v.num * low.den < low.num * v.den \/ v.num * high.den > high.num * v.den}

WinRatesInRange(stats) ==
    \A f \in {"winRate1h", "winRate4h", "winRate24h"} :
        /\ stats[f].den > 0
        /\ 0 <= stats[f].num
        /\ stats[f].num <= 100 * stats[f].den

\* the 24h horizon of a timeframe in candles
HorizonCandles(timeframe) ==
    IF timeframe = "1h" THEN 24 ELSE IF timeframe = "4h" THEN 6 ELSE 1

-----------------------------------------------------------------------------
(* app/page.tsx: checkAlerts                                                *)
(* An alert symbol is a record [base, quote]; d.symbol + 'USDT' is the      *)
(* record with that base.  The alert key is the tuple of the five fields    *)
(* that the template string joins.  A cycle returns the notifications, log  *)
(* entries and performance entries it handed out, in order.                 *)

MaxAlerts == 2     \* longest alert list of a cycle

\* `${alert.symbol}-${alert.rsiPeriod}-${alert.timeframe}-${alert.condition}-${alert.threshold}`
AlertKey(alert) == <<alert.symbol, alert.rsiPeriod, alert.timeframe, alert.condition, alert.threshold>>

\* d.symbol + 'USDT'
WithUSDT(symbol) == [base |-> symbol, quote |-> "USDT"]

\* data.find(d => d.symbol + 'USDT' === alert.symbol): the first match, or
\* UNDEF
RECURSIVE FindCrypto(_, _)
FindCrypto(data, symbol) ==
    IF data = <<>> THEN UNDEF
    ELSE IF WithUSDT(Head(data).symbol) = symbol THEN Head(data)
         ELSE FindCrypto(Tail(data), symbol)

\* alert.condition === 'below' ? rsiValue < alert.threshold
\*                             : rsiValue > alert.threshold
IsTriggered(alert, rsiValue) ==
    IF alert.condition = "below"
    THEN RLt(rsiValue, alert.threshold)
    ELSE RGt(rsiValue, alert.threshold)

\* mutant: the triggered set is not consulted
FiresAlert_EveryCycle(isTriggered, triggered, alertKey) == isTriggered

\* isTriggered && !triggeredRef.current.has(alertKey)
FiresAlert(isTriggered, triggered, alertKey) == isTriggered /\ alertKey \notin triggered

\* !isTriggered && triggeredRef.current.has(alertKey)
ResetsAlert(isTriggered, triggered, alertKey) == ~isTriggered /\ alertKey \in triggered

AlertType(alert) == IF alert.condition = "below" THEN "oversold" ELSE "overbought"

AlertDirection(alert) == IF alert.condition = "below" THEN "OVERSOLD" ELSE "OVERBOUGHT"

\* `RSI${alert.rsiPeriod} ${alert.timeframe}: ${rsiValue.toFixed(1)} (${alert.condition} ${alert.threshold})`
AlertMessage(alert, rsiValue) == [rsiPeriod |-> alert.rsiPeriod, timeframe |-> alert.timeframe, value |-> ToFixed1(rsiValue), condition |-> alert.condition, threshold |-> alert.threshold]

\* the body of the loop for one alert; st is [triggered, sent, logs, perf]
CheckAlert(alert, data, st) ==
    IF ~alert.enabled THEN st
    ELSE
    LET crypto == FindCrypto(data, alert.symbol)
    IN
    IF crypto = UNDEF THEN st
    ELSE
    LET rsiValue == ReadingAt(crypto.timeframes, alert.timeframe, alert.rsiPeriod)
    IN
    IF rsiValue = NULL \/ rsiValue = UNDEF THEN st
    ELSE
    LET alertKey == AlertKey(alert)
        isTriggered == IsTriggered(alert, rsiValue)
        symbol == StripUSDT(alert.symbol)
        direction == AlertDirection(alert)
        message == AlertMessage(alert, rsiValue)
    IN
    IF FiresAlert(isTriggered, st.triggered, alertKey)
    THEN [triggered |-> st.triggered \cup {alertKey},
          sent |-> Append(st.sent,
                     [title |-> symbol, direction |-> direction,
                      message |-> message]),
          logs |-> Append(st.logs,
                     [id |-> alertKey, symbol |-> symbol,
                      direction |-> direction, message |-> message,
                      type |-> AlertType(alert)]),
          perf |-> Append(st.perf,
                     [id |-> alertKey, symbol |-> symbol,
                      triggerPrice |-> crypto.price, triggerRSI |-> rsiValue,
                      rsiPeriod |-> alert.rsiPeriod,
                      timeframe |-> alert.timeframe,
                      type |-> AlertType(alert), outcome |-> "pending"])]
    ELSE IF ResetsAlert(isTriggered, st.triggered, alertKey)
         THEN [st EXCEPT !.triggered = st.triggered \ {alertKey}]
         ELSE st

\* for (const alert of alerts)
RECURSIVE CheckAlertsFrom(_, _, _)
CheckAlertsFrom(alerts, data, st) ==
    IF alerts = <<>> THEN st
    ELSE CheckAlertsFrom(Tail(alerts), data, CheckAlert(Head(alerts), data, st))

checkAlerts(data, alerts, triggered) ==
    CheckAlertsFrom(alerts, data,
        [triggered |-> triggered, sent |-> <<>>, logs |-> <<>>, perf |-> <<>>])

\* the alerts a user can have saved
AlertConditions == {"below", "above"}

AlertThresholds == {R(30), R(70)}

AlertsDrawn == [symbol : {WithUSDT("BTC")}, rsiPeriod : {14}, timeframe : {"1h"}, condition : AlertConditions, threshold : AlertThresholds, enabled : BOOLEAN]

AlertLists == UNION {[1..n -> AlertsDrawn] : n \in 0..MaxAlerts}

\* the rows of a refresh: no row, a row of another coin, a row without the
\* timeframe or without the period, a row with a null or numeric reading,
\* and two rows of which the second is the coin of the alerts
Row(symbol, tfs) == [symbol |-> symbol, price |-> 100, timeframes |-> tfs]

AlertReadings == {NULL, R(20), R(30), R(50), R(70), R(80)}

DataDrawn ==
    {<<>>,
     <<Row("ETH", [l \in {"1h"} |-> [p \in {14} |-> R(20)]])>>,
     <<Row("BTC", <<>>)>>,
     <<Row("BTC", [l \in {"1h"} |-> [p \in {7} |-> R(20)]])>>,
     <<Row("ETH", [l \in {"1h"} |-> [p \in {14} |-> R(20)]]),
       Row("BTC", [l \in {"1h"} |-> [p \in {14} |-> R(80)]])>>}
    \cup
    {<<Row("BTC", [l \in {"1h"} |-> [p \in {14} |-> x]])>> : x \in AlertReadings}

\* the keys of the enabled alerts of a cycle that have a reading, and those
\* of them whose condition is false on that reading
CheckedKeys(data, alerts) ==
    {AlertKey(alerts[i]) : i \in {j \in DOMAIN alerts :
        /\ alerts[j].enabled
        /\ FindCrypto(data, alerts[j].symbol) # UNDEF
        /\ IsNum(ReadingAt(FindCrypto(data, alerts[j].symbol).timeframes,
                           alerts[j].timeframe, alerts[j].rsiPeriod))}}

KeyReading(data, key) == ReadingAt(FindCrypto(data, key[1]).timeframes, key[3], key[2])

KeyCondition(data, key) ==
    IF key[4] = "below" THEN RLt(KeyReading(data, key), key[5])
    ELSE RGt(KeyReading(data, key), key[5])

CheckedFalseKeys(data, alerts) == {k \in CheckedKeys(data, alerts) : ~KeyCondition(data, k)}

\* the alert key a notification was sent for
NotificationKey(n) == <<WithUSDT(n.title), n.message.rsiPeriod, n.message.timeframe, n.message.condition, n.message.threshold>>

NotifiedKeys(sent) == {NotificationKey(sent[i]) : i \in DOMAIN sent}

\* one check cycle (the effect at page.tsx:697 after a refresh)
CheckAlertsCycle ==
    /\ fn = "idle"
    /\ \E data \in DataDrawn, alerts \in AlertLists :
        LET out == checkAlerts(data, alerts, triggeredRef)
        IN
        /\ fn' = "checkAlerts"
        /\ args' = <<data, alerts>>
        /\ ret' = [sent |-> out.sent, logs |-> out.logs, perf |-> out.perf]
        /\ triggeredRef' = out.triggered
        /\ unreset' = (unreset \ CheckedFalseKeys(data, alerts))
                          \cup NotifiedKeys(out.sent)
    /\ UNCHANGED <<scanVars, listVars, wsVars>>

NextAlerts ==
    \/ CheckAlertsCycle
    \/ Return

SpecAlerts == InitIdle /\ [][NextAlerts]_vars

-----------------------------------------------------------------------------
(* Claims about the alerts *)

AllAlertKeys == {AlertKey(a) : a \in AlertsDrawn}

\* how many notifications of a cycle carry the key
NotificationCount(sent, key) == Cardinality({i \in DOMAIN sent : NotificationKey(sent[i]) = key})

\* one cycle as the two-state machine of a key: armed is "not in the
\* triggered set", triggered is "in the triggered set"
KeyStep(key, data, alerts, before, after, sent, history) ==
    IF key \in CheckedKeys(data, alerts)
    THEN /\ NotificationCount(sent, key) =
                IF KeyCondition(data, key) /\ key \notin before THEN 1 ELSE 0
         /\ key \in after <=> KeyCondition(data, key)
         /\ NotificationCount(sent, key) = 1 => key \notin history
    ELSE /\ NotificationCount(sent, key) = 0
         /\ key \in after <=> key \in before

\* C16: for each alert key, over the check cycles in which an enabled alert
\* with that key has a reading, checkAlerts is a two-state machine: a
\* notification is sent exactly when the condition holds and the key is armed
\* (and then once), none is sent while the key stays triggered, the key is
\* armed again after the first checked cycle in which the condition is false,
\* and a cycle that does not check the key leaves its state alone; so between
\* two notifications for a key there is a checked cycle with a false
\* condition.
C16_AlertStateMachine ==
    [][fn' = "checkAlerts" /\ fn = "idle" =>
        \A key \in AllAlertKeys :
            KeyStep(key, args'[1], args'[2], triggeredRef, triggeredRef',
                    ret'.sent, unreset)]_vars

\* C16 witness: a cycle with two enabled alerts whose conditions both hold on
\* the reading, of which one was already triggered: one notification is sent
\* and both keys are in the triggered set.
C16_Witness ==
    /\ fn = "checkAlerts"
    /\ Len(args[2]) = 2
    /\ AlertKey(args[2][1]) # AlertKey(args[2][2])
    /\ {AlertKey(args[2][1]), AlertKey(args[2][2])} \subseteq CheckedKeys(args[1], args[2])
    /\ KeyCondition(args[1], AlertKey(args[2][1]))
    /\ KeyCondition(args[1], AlertKey(args[2][2]))
    /\ Len(ret.sent) = 1
    /\ NotificationKey(ret.sent[1]) = AlertKey(args[2][2])
    /\ {AlertKey(args[2][1]), AlertKey(args[2][2])} \subseteq triggeredRef

-----------------------------------------------------------------------------
(* Claims about trend, stretch and momentum flips *)

\* 100 - x of a reading, absent staying absent
Reflect(x) == IF x = NULL THEN NULL ELSE RSub(R(100), x)

MirrorTrend(trend) ==
    IF trend = "bull" THEN "bear"
    ELSE IF trend = "bear" THEN "bull"
         ELSE "neutral"

IsFifty(x) == RLe(x, R(50)) /\ RGe(x, R(50))

\* present rsi14 and rsi50 in [0,100], rsi200 in [0,100] or absent
TrendInputs(a, b, c) ==
    /\ a # NULL /\ InRange(a)
    /\ b # NULL /\ InRange(b)
    /\ c = NULL \/ InRange(c)

\* rsi14 <= 50, rsi50 <= 50 and rsi200 absent or <= 50
BearReadings(a, b, c) == RLe(a, R(50)) /\ RLe(b, R(50)) /\ (c = NULL \/ RLe(c, R(50)))

\* rsi14 = rsi50 = 50 and rsi200 absent or 50: the bull and the bear test
\* both pass
TrendTie(a, b, c) == IsFifty(a) /\ IsFifty(b) /\ (c = NULL \/ IsFifty(c))

\* C17 as stated: for present readings a, b in [0,100] and c in [0,100] or
\* absent, calculateTrendState(100-a, 100-b, 100-c) is the mirror of
\* calculateTrendState(a, b, c), and bear is returned whenever rsi14 <= 50,
\* rsi50 <= 50 and rsi200 is absent or <= 50.
C17_TrendSymmetric ==
    fn = "calculateTrendState" /\ TrendInputs(args[1], args[2], args[3]) =>
        /\ calculateTrendState(Reflect(args[1]), Reflect(args[2]), Reflect(args[3]))
               = MirrorTrend(ret)
        /\ BearReadings(args[1], args[2], args[3]) => ret = "bear"

\* C17 amended: the mirror relation holds for all such readings except
\* rsi14 = rsi50 = 50 with rsi200 absent or 50, where the call and the
\* reflected call both return bull; bear is returned exactly when rsi14 <= 50,
\* rsi50 <= 50, rsi200 is absent or <= 50 and the readings are not that tie.
C17_TrendSymmetricOffTie ==
    fn = "calculateTrendState" /\ TrendInputs(args[1], args[2], args[3]) =>
        LET reflected == calculateTrendState(Reflect(args[1]), Reflect(args[2]), Reflect(args[3]))
            tie == TrendTie(args[1], args[2], args[3])
        IN
        /\ ~tie => reflected = MirrorTrend(ret)
        /\ tie => ret = "bull" /\ reflected = "bull"
        /\ ret = "bear" <=> BearReadings(args[1], args[2], args[3]) /\ ~tie

\* C17 witness: rsi14 just below 50, rsi50 of exactly 50 and no rsi200 give
\* bear, and the reflected readings give bull.
C17_Witness ==
    /\ fn = "calculateTrendState"
    /\ args[1] # NULL /\ RLt(args[1], R(50)) /\ InRange(args[1])
    /\ args[2] # NULL /\ IsFifty(args[2])
    /\ args[3] = NULL
    /\ ret = "bear"
    /\ calculateTrendState(Reflect(args[1]), Reflect(args[2]), Reflect(args[3])) = "bull"

\* a present rsi5 is <= 25 or a present rsi9 is <= 30
OversoldReadings(rsi5, rsi9) == (IsNum(rsi5) /\ RLe(rsi5, R(25))) \/ (IsNum(rsi9) /\ RLe(rsi9, R(30)))

\* a present rsi5 is >= 75 or a present rsi9 is >= 70
OverboughtReadings(rsi5, rsi9) == (IsNum(rsi5) /\ RGe(rsi5, R(75))) \/ (IsNum(rsi9) /\ RGe(rsi9, R(70)))

\* C18: calculateStretchState returns oversold iff a present rsi5 is <= 25 or
\* a present rsi9 is <= 30; overbought iff that is false and a present rsi5 is
\* >= 75 or a present rsi9 is >= 70; neutral otherwise, in particular when
\* both readings are absent; an absent reading is ignored, the other one
\* decides.
C18_StretchState ==
    fn = "calculateStretchState" =>
        LET oversold == OversoldReadings(args[1], args[2])
            overbought == OverboughtReadings(args[1], args[2])
        IN
        /\ ret = "oversold" <=> oversold
        /\ ret = "overbought" <=> ~oversold /\ overbought
        /\ ret = "neutral" <=> ~oversold /\ ~overbought
        /\ args[1] = NULL /\ args[2] = NULL => ret = "neutral"
        /\ args[1] = NULL /\ args[2] # NULL =>
               ret = calculateStretchState(R(50), args[2])
        /\ args[2] = NULL /\ args[1] # NULL =>
               ret = calculateStretchState(args[1], R(50))

\* C18 witness: with rsi5 absent an rsi9 of exactly 70 gives overbought.
C18_Witness ==
    /\ fn = "calculateStretchState"
    /\ args[1] = NULL
    /\ args[2] = R(70)
    /\ ret = "overbought"

\* the result when the overbought condition is tested before the oversold one
OverboughtTestedFirst(rsi5, rsi9) ==
    IF OverboughtReadings(rsi5, rsi9) THEN "overbought"
    ELSE IF OversoldReadings(rsi5, rsi9) THEN "oversold"
         ELSE "neutral"

BothInRange(rsi5, rsi9) == IsNum(rsi5) /\ InRange(rsi5) /\ IsNum(rsi9) /\ InRange(rsi9)

\* C19 as stated: for readings rsi5, rsi9 in [0,100] the oversold condition
\* and the overbought condition of calculateStretchState are never both true,
\* so the result is the same whichever of the two is tested first.
C19_StretchExclusive ==
    fn = "calculateStretchState" /\ BothInRange(args[1], args[2]) =>
        /\ ~(OversoldReadings(args[1], args[2]) /\ OverboughtReadings(args[1], args[2]))
        /\ ret = OverboughtTestedFirst(args[1], args[2])

\* C19 amended: for readings rsi5, rsi9 in [0,100] the two conditions are both
\* true exactly when rsi5 <= 25 with rsi9 >= 70 or rsi9 <= 30 with rsi5 >= 75;
\* calculateStretchState then returns oversold, where testing overbought first
\* would give overbought; for all other readings the order of the two tests
\* does not matter.
C19_StretchOverlap ==
    fn = "calculateStretchState" /\ BothInRange(args[1], args[2]) =>
        LET both == OversoldReadings(args[1], args[2]) /\ OverboughtReadings(args[1], args[2])
        IN
        /\ both <=> \/ RLe(args[1], R(25)) /\ RGe(args[2], R(70))
                    \/ RLe(args[2], R(30)) /\ RGe(args[1], R(75))
        /\ both => ret = "oversold" /\ OverboughtTestedFirst(args[1], args[2]) = "overbought"
        /\ ~both => ret = OverboughtTestedFirst(args[1], args[2])

\* C19 witness: rsi5 of exactly 25 with rsi9 of exactly 70 satisfies both
\* conditions and is classified oversold.
C19_Witness ==
    /\ fn = "calculateStretchState"
    /\ args[1] = R(25)
    /\ args[2] = R(70)
    /\ ret = "oversold"

AllPresent(rsi5, rsi9, rsi5Prev, rsi9Prev) == IsNum(rsi5) /\ IsNum(rsi9) /\ IsNum(rsi5Prev) /\ IsNum(rsi9Prev)

\* C20: detectBullFlip returns true iff all four readings are present,
\* rsi5Prev <= rsi9Prev, rsi5 > rsi9 and rsi14Rising is true; detectBearFlip
\* returns true iff all four readings are present, rsi5Prev >= rsi9Prev,
\* rsi5 < rsi9 and rsi14Falling is true; any absent reading gives false.
C20_Flips ==
    /\ fn = "detectBullFlip" =>
           (ret <=> /\ AllPresent(args[1], args[2], args[3], args[4])
                    /\ RLe(args[3], args[4])
                    /\ RGt(args[1], args[2])
                    /\ args[5])
    /\ fn = "detectBearFlip" =>
           (ret <=> /\ AllPresent(args[1], args[2], args[3], args[4])
                    /\ RGe(args[3], args[4])
                    /\ RLt(args[1], args[2])
                    /\ args[5])

\* C20 witness: rsi5Prev = 40, rsi9Prev = 45, rsi5 = 50, rsi9 = 48 with a
\* rising RSI14 is a bull flip.
C20_Witness ==
    /\ fn = "detectBullFlip"
    /\ args = <<R(50), R(48), R(40), R(45), TRUE>>
    /\ ret = TRUE

-----------------------------------------------------------------------------
(* Claims about the regime *)

\* the positions of the six inputs that hold a reading
Remaining(six) == {i \in 1..6 : IsNum(six[i])}

AboveFifty(six) == Cardinality({i \in Remaining(six) : RGt(six[i], R(50))})

BelowFifty(six) == Cardinality({i \in Remaining(six) : RLt(six[i], R(50))})

\* count is at least 70% of total
AtLeast70Percent(count, total) == 100 * count >= 70 * total

\* C21: calculateRegime ignores absent readings and returns transition when
\* fewer than 3 remain; otherwise bull_regime iff the number of remaining
\* readings strictly above 50 is at least 70% of the number remaining,
\* bear_regime iff the number strictly below 50 is at least 70% of them,
\* transition otherwise; the bull and the bear condition never both hold.
C21_Regime ==
    fn = "calculateRegime" =>
        LET n == Cardinality(Remaining(args))
            bull == AtLeast70Percent(AboveFifty(args), n)
            bear == AtLeast70Percent(BelowFifty(args), n)
        IN
        IF n < 3 THEN ret = "transition"
        ELSE /\ ret = "bull_regime" <=> bull
             /\ ret = "bear_regime" <=> bear
             /\ ret = "transition" <=> ~bull /\ ~bear
             /\ ~(bull /\ bear)

\* C21 witness: five readings remain, four of them above 50 and one of
\* exactly 50, which is a bull regime; one more reading of 50 would not be.
C21_Witness ==
    /\ fn = "calculateRegime"
    /\ Cardinality(Remaining(args)) = 5
    /\ AboveFifty(args) = 4
    /\ BelowFifty(args) = 0
    /\ ret = "bull_regime"

-----------------------------------------------------------------------------
(* Claims about the reasons of the four checks *)

CheckNames == {"checkSwingLong", "checkSwingShort", "checkScalpLong", "checkScalpShort"}

Between(x, low, high) == RGe(x, R(low)) /\ RLe(x, R(high))

StrictlyBetween(x, low, high) == RGt(x, R(low)) /\ RLt(x, R(high))

\* the gates of a check in their listed order, as booleans of its arguments
GatesOf(check, a) ==
    IF check = "checkSwingLong"
    THEN <<a[1] = "long_only",
           IsNum(a[2].rsi14) /\ (Between(a[2].rsi14, 35, 45) \/ (StrictlyBetween(a[2].rsi14, 45, 55) /\ a[2].rsi14Rising)),
           a[2].rsi14Rising,
           IsNum(a[3].rsi14) /\ RGe(a[3].rsi14, R(50)) /\ a[3].rsi14Rising>>
    ELSE IF check = "checkSwingShort"
    THEN <<a[1] = "short_only",
           IsNum(a[2].rsi14) /\ (Between(a[2].rsi14, 55, 65) \/ (StrictlyBetween(a[2].rsi14, 45, 55) /\ a[2].rsi14Falling)),
           a[2].rsi14Falling,
           IsNum(a[3].rsi14) /\ RLe(a[3].rsi14, R(50)) /\ a[3].rsi14Falling>>
    ELSE IF check = "checkScalpLong"
    THEN <<a[1] = "long_only",
           a[2].stretchState = "oversold",
           (~IsNullTF(a[3]) /\ a[3].bullFlip) \/ a[2].bullFlip>>
    ELSE <<a[1] = "short_only",
           a[2].stretchState = "overbought",
           (~IsNullTF(a[3]) /\ a[3].bearFlip) \/ a[2].bearFlip>>

\* the texts of the positive reason of each gate
GateTexts(check) ==
    IF check = "checkSwingLong"
    THEN <<{"Swing Bias: Long Only (1D Bull + 4H Bull)"},
           {"4H RSI14 in reset zone (35-45)", "4H RSI14 crossed above 45 reset zone"},
           {"4H RSI14 is rising"},
           {"1H RSI14 >= 50 and rising"}>>
    ELSE IF check = "checkSwingShort"
    THEN <<{"Swing Bias: Short Only (1D Bear + 4H Bear)"},
           {"4H RSI14 in reset zone (55-65)", "4H RSI14 crossed below 55 reset zone"},
           {"4H RSI14 is falling"},
           {"1H RSI14 <= 50 and falling"}>>
    ELSE IF check = "checkScalpLong"
    THEN <<{"Scalp Bias: Long Only"}, {"5m Oversold"}, {"Bull flip detected"}>>
    ELSE <<{"Scalp Bias: Short Only"}, {"5m Overbought"}, {"Bear flip detected"}>>

\* the number of gates passed before the first failing one
PassedBefore(gates) ==
    IF \A i \in DOMAIN gates : gates[i] THEN Len(gates)
    ELSE (CHOOSE i \in DOMAIN gates : ~gates[i] /\ \A j \in 1..(i - 1) : gates[j]) - 1

\* the first count reasons are the positive reasons of the first count gates
PositiveInGateOrder(check, reasons, count) ==
    /\ Len(reasons) >= count
    /\ \A i \in 1..count :
        /\ reasons[i].mark = "ok"
        /\ reasons[i].text \in GateTexts(check)[i]

ReasonsShape(check, a, r) ==
    LET gates == GatesOf(check, a)
        passed == PassedBefore(gates)
    IN
    /\ r.valid <=> passed = Len(gates)
    /\ PositiveInGateOrder(check, r.reasons, passed)
    /\ ~r.valid =>
        /\ Len(r.reasons) = passed + 1
        /\ r.reasons[passed + 1].mark = "fail"
    /\ r.valid =>
        /\ Len(r.reasons) \in {passed, passed + 1}
        /\ \A i \in DOMAIN r.reasons : r.reasons[i].mark # "fail"

\* C22: for each of the four checks the gates are evaluated in the listed
\* order and evaluation stops at the first failing gate; an invalid result
\* has one check-mark reason per gate passed followed by exactly one final
\* reason that starts with a cross; a valid result has no cross reason and
\* lists the positive reasons of the gates in gate order, then at most one
\* optional reason.
C22_ReasonsShape ==
    fn \in CheckNames => ReasonsShape(fn, args, ret)

\* the same for calls whose bias gate passes
C22_ReasonsShapePastBias ==
    fn \in CheckNames /\ GatesOf(fn, args)[1] => ReasonsShape(fn, args, ret)

\* a failing bias gate gives the single reason without any mark
C22_BiasGateUnmarked ==
    fn \in CheckNames /\ ~GatesOf(fn, args)[1] =>
        /\ ~ret.valid
        /\ Len(ret.reasons) = 1
        /\ ret.reasons[1].mark = "plain"

\* a call whose bias gate fails
C22_BiasGateFails ==
    /\ fn = "checkSwingLong"
    /\ args[1] = "no_trade"
    /\ ret.reasons = <<Reason("plain", "Swing bias is not Long Only (need 1D+4H bull)", <<>>)>>

-----------------------------------------------------------------------------
(* Claims about the order of the confluence thresholds *)

\* the signal when the sell-side thresholds are evaluated first
SellSideFirst(oversoldCount, overboughtCount) ==
    IF overboughtCount >= 3 THEN "strong_sell"
    ELSE IF overboughtCount >= 2 THEN "sell"
    ELSE IF oversoldCount >= 3 THEN "strong_buy"
    ELSE IF oversoldCount >= 2 THEN "buy"
    ELSE "neutral"

\* C23 as stated: for every timeframe list and every map of readings,
\* oversoldCount >= 3 and overboughtCount >= 3 never hold together, and the
\* signal is the same when the sell-side thresholds are evaluated first.
C23_NeverBothStrong ==
    fn = "calculateConfluence" =>
        /\ ~(ret.oversoldCount >= 3 /\ ret.overboughtCount >= 3)
        /\ ret.signal = SellSideFirst(ret.oversoldCount, ret.overboughtCount)

\* C23 amended: oversoldCount >= 3 and overboughtCount >= 3 hold together only
\* for lists with at least six present readings, and never for lists of up to
\* five entries; the signal is then strong_buy.  The order of the thresholds
\* changes the signal exactly when both counts are at least 2 (which needs at
\* least four present readings): buy-side first gives buy or strong_buy where
\* sell-side first would give sell or strong_sell.
C23_ThresholdOrder ==
    fn = "calculateConfluence" =>
        LET bothStrong == ret.oversoldCount >= 3 /\ ret.overboughtCount >= 3
            bothTwo == ret.oversoldCount >= 2 /\ ret.overboughtCount >= 2
        IN
        /\ bothStrong => ret.totalTimeframes >= 6 /\ ret.signal = "strong_buy"
        /\ Len(args[3]) <= 5 => ~bothStrong
        /\ bothTwo => ret.totalTimeframes >= 4 /\ ret.signal \in {"buy", "strong_buy"}
        /\ Len(args[3]) <= 3 => ~bothTwo
        /\ ret.signal # SellSideFirst(ret.oversoldCount, ret.overboughtCount) <=> bothTwo

\* C23 witness: three readings of 20 and three of 80 on six listed
\* timeframes: both counts are 3 and the signal is strong_buy.
C23_Witness ==
    /\ fn = "calculateConfluence"
    /\ Len(args[3]) = 6
    /\ ret.oversoldCount = 3
    /\ ret.overboughtCount = 3
    /\ ret.signal = "strong_buy"

-----------------------------------------------------------------------------
(* Claims about findLocalExtremes *)

\* values[i] is the maximum (minimum) of values[i - lookback .. i + lookback],
\* for an index i whose window lies inside the series
IsWindowExtreme(values, isMax, lookback, i) ==
    \A j \in (i - lookback)..(i + lookback) :
        IF isMax THEN At(values, j) <= At(values, i)
        ELSE At(values, j) >= At(values, i)

StrictlyAscending(indices) == \A k \in 1..(Len(indices) - 1) : indices[k] < indices[k + 1]

\* C24: findLocalExtremes returns, in strictly ascending order, exactly the
\* indices i with lookback <= i < values.length - lookback whose value equals
\* the maximum (isMax) or minimum (not isMax) of values[i-lookback ..
\* i+lookback]; ties count, so adjacent indices can both be returned; the
\* result is empty when values.length < 2*lookback + 1.
C24_LocalExtremes ==
    fn = "findLocalExtremes" =>
        LET values == args[1]
            isMax == args[2]
            lookback == args[3]
        IN
        /\ StrictlyAscending(ret)
        /\ {ret[k] : k \in DOMAIN ret} =
               {i \in lookback..(Len(values) - lookback - 1) :
                    IsWindowExtreme(values, isMax, lookback, i)}
        /\ Len(values) < 2 * lookback + 1 => ret = <<>>

\* C24 witness: with lookback 1 two adjacent candles share the maximum of
\* their windows and both indices are returned, while a third candidate is
\* not an extreme.
C24_Witness ==
    /\ fn = "findLocalExtremes"
    /\ args[2] = TRUE
    /\ args[3] = 1
    /\ Len(args[1]) = 5
    /\ ret = <<1, 2>>

-----------------------------------------------------------------------------
(* Claims about the scan of the backtest *)

\* the three horizons of a timeframe in candles, rounded up
ForwardCandles(timeframe) ==
    IF timeframe = "1h" THEN [return1h |-> 1, return4h |-> 4, return24h |-> 24]
    ELSE IF timeframe = "4h" THEN [return1h |-> 1, return4h |-> 1, return24h |-> 6]
    ELSE [return1h |-> 0, return4h |-> 0, return24h |-> 1]

\* whether the horizon of a timeframe is positive (0.25 candles is)
HorizonPositive(timeframe, field) == timeframe # "1d" \/ field = "return24h"

\* the latest count members of a set of indices
LatestOf(S, count) == {i \in S : Cardinality({j \in S : j > i}) < count}

\* r is the change from price to close in percent of price
IsReturn(r, close, price) == IsNum(r) /\ r.num * price = 100 * (close - price) * r.den

\* the oscillator value lies beyond one of the thresholds
BeyondThreshold(v, low, high) == RLt(v, low) \/ RGt(v, high)

\* a reported signal is that of candle s.timestamp: its price and oscillator
\* value (values is the array form of the series), and forward returns taken
\* at timestamp + horizon, an index of the series
SignalOfCandle(s, klines, values, rsiPeriod, timeframe) ==
    LET i == s.timestamp
    IN
    /\ s.price = klines[i + 1].close
    /\ s.rsi = values[i - rsiPeriod + 1]
    /\ \A field \in {"return1h", "return4h", "return24h"} :
        LET forward == i + ForwardCandles(timeframe)[field]
        IN  IF HorizonPositive(timeframe, field)
            THEN /\ forward > i
                 /\ forward <= Len(klines) - 1
                 /\ IsReturn(s[field], klines[forward + 1].close, s.price)
            ELSE s[field] = NULL

\* the reported signals are those of the threshold candles from rsiPeriod to
\* last (the latest 50 of them), in candle order
ScansUpTo(last) ==
    LET klines == args[2].klines
        values == calculateRSIArray([k \in 1..Len(klines) |-> klines[k].close], args[3])
        candles == {i \in args[3]..last : BeyondThreshold(values[i - args[3] + 1], args[4], args[5])}
    IN
    /\ Len(values) = Len(klines) - args[3]
    /\ {ret.signals[k].timestamp : k \in DOMAIN ret.signals} = LatestOf(candles, 50)
    /\ \A k \in 1..(Len(ret.signals) - 1) :
           ret.signals[k].timestamp < ret.signals[k + 1].timestamp
    /\ \A k \in DOMAIN ret.signals :
           SignalOfCandle(ret.signals[k], klines, values, args[3], args[1])

\* C25 as stated: runBacktest scans every candle index from rsiPeriod up to
\* and including length - horizonCandles - 1; the oscillator value used at
\* index i is the array-form value for candle i; every forward-return index
\* of a scanned candle is an index of the series after i, unclamped.
C25_ScanInclusive ==
    (fn = "runBacktest" /\ ~ret.isNull) =>
        ScansUpTo(Len(args[2].klines) - HorizonCandles(args[1]) - 1)

\* what the loop does: it scans every candle index from rsiPeriod up to and
\* including length - horizonCandles - 2 (the loop stops before
\* length - horizonCandles - 1); the oscillator value used at index i is the
\* array-form value for candle i; every forward-return index of a scanned
\* candle is an index of the series after i, unclamped.
C25_ScanExclusive ==
    (fn = "runBacktest" /\ ~ret.isNull) =>
        ScansUpTo(Len(args[2].klines) - HorizonCandles(args[1]) - 2)

\* the skipped candle: on 1h candles the candle 26 from the end is reported with its
\* returns, and the candle 25 from the end, whose 24h index is the last
\* candle, is beyond a threshold and not reported.
C25_SkippedCandle ==
    /\ fn = "runBacktest"
    /\ ~ret.isNull
    /\ args[1] = "1h"
    /\ Len(ret.signals) > 0
    /\ ret.signals[Len(ret.signals)].timestamp = Len(args[2].klines) - 26
    /\ ThresholdCandles(args[2].klines, args[3], args[4], args[5],
                        Len(args[2].klines) - 25, Len(args[2].klines) - 25) # {}

-----------------------------------------------------------------------------
(* Claims about the confidence and the zones of reported signals *)

EntriesOf(list) == {list[i] : i \in 1..Len(list)}

\* the entries with a signal in the list being built and the list published
ReportedSignals == {e \in EntriesOf(results) \cup EntriesOf(signalResults) : e.signal # "null"}

IsSwingSignal(e) == e.signal \in {"swing_long", "swing_short"}

IsLongSignal(e) == e.signal \in {"swing_long", "scalp_long"}

\* a flip in the direction of the signal was detected: for a swing signal on
\* any snapshot of the pair, for a scalp signal on the 1m or 5m snapshot
FlipDetected(e) ==
    LET labels == IF IsSwingSignal(e) THEN DOMAIN e.timeframes
                  ELSE DOMAIN e.timeframes \cap {"1m", "5m"}
    IN  \E l \in labels :
            IF IsLongSignal(e) THEN e.timeframes[l].bullFlip
            ELSE e.timeframes[l].bearFlip

\* the confidence of the entry's signal with the given flip flag, all other
\* components as the scanner passes them
ConfidenceGiven(e, hasFlip) ==
    LET tfs == e.timeframes
    IN
    IF IsSwingSignal(e)
    THEN calculateConfidence(e.swingBias, tfs["1d"].rsi14, tfs["4h"].rsi14,
             tfs["4h"].rsi5, tfs["4h"].rsi9, hasFlip,
             IF IsLongSignal(e) THEN tfs["1h"].rsi14Rising ELSE tfs["1h"].rsi14Falling,
             TRUE, tfs["1h"].rsi14)
    ELSE calculateConfidence(e.scalpBias, tfs["1d"].rsi14, tfs["4h"].rsi14,
             tfs["5m"].rsi5, tfs["5m"].rsi9, hasFlip,
             /\ IsNum(tfs["15m"].rsi14)
             /\ IF IsLongSignal(e) THEN RGe(tfs["15m"].rsi14, R(45))
                ELSE RLe(tfs["15m"].rsi14, R(55)),
             FALSE, UNDEF)

\* C26: the +15 flip component of a reported signal's confidence is included
\* only when a flip was detected: without a bull/bear flip flag on one of the
\* pair's snapshots (swing) or on the 1m or 5m snapshot (scalp) the confidence
\* is the one computed without the flip component.
C26_FlipComponent ==
    \A e \in ReportedSignals :
        ~FlipDetected(e) => e.confidence = ConfidenceGiven(e, FALSE)

\* for scalp signals a flip is always detected and the component follows it
C26_ScalpFlipComponent ==
    \A e \in ReportedSignals :
        ~IsSwingSignal(e) => FlipDetected(e) /\ e.confidence = ConfidenceGiven(e, TRUE)

\* for swing signals the component is always included
C26_SwingFlipAlways ==
    \A e \in ReportedSignals :
        IsSwingSignal(e) => e.confidence = ConfidenceGiven(e, TRUE)

\* a published swing long without a bull flip on any snapshot whose confidence
\* is 15 above the one computed without the flip component
C26_SwingWithoutFlip ==
    /\ pc = "done"
    /\ Len(signalResults) >= 1
    /\ signalResults[1].signal = "swing_long"
    /\ ~FlipDetected(signalResults[1])
    /\ signalResults[1].confidence = ConfidenceGiven(signalResults[1], FALSE) + 15

\* the reason of the given text in an entry's reasons
HasReason(e, text) == \E i \in DOMAIN e.reasons : e.reasons[i].text = text

\* C27: in runSignalScanner swingBias = long_only implies a 4h RSI14 of at
\* least 50, so the [35,45] reset-zone branch of checkSwingLong is never taken
\* and a swing_long is reported only with the 4h RSI14 in [50,55) and rising;
\* symmetrically swingBias = short_only implies a 4h RSI14 of at most 50, the
\* [55,65] branch is never taken and a swing_short is reported only with the
\* 4h RSI14 in (45,50] and falling.
C27_SwingZones ==
    /\ (pc = "evaluate" /\ {"4h", "1h", "1d"} \subseteq DOMAIN timeframes) =>
        LET swingBias == calculateSwingBias(timeframes["1d"].trendState, timeframes["4h"].trendState)
            r4 == timeframes["4h"].rsi14
        IN  /\ swingBias = "long_only" => IsNum(r4) /\ RGe(r4, R(50)) /\ ~InResetZoneLong(r4)
            /\ swingBias = "short_only" => IsNum(r4) /\ RLe(r4, R(50)) /\ ~InResetZoneShort(r4)
    /\ \A e \in ReportedSignals :
        LET r4 == e.timeframes["4h"].rsi14
        IN  /\ e.signal = "swing_long" =>
                /\ RGe(r4, R(50)) /\ RLt(r4, R(55))
                /\ e.timeframes["4h"].rsi14Rising
                /\ HasReason(e, "4H RSI14 crossed above 45 reset zone")
                /\ ~HasReason(e, "4H RSI14 in reset zone (35-45)")
            /\ e.signal = "swing_short" =>
                /\ RGt(r4, R(45)) /\ RLe(r4, R(50))
                /\ e.timeframes["4h"].rsi14Falling
                /\ HasReason(e, "4H RSI14 crossed below 55 reset zone")
                /\ ~HasReason(e, "4H RSI14 in reset zone (55-65)")

\* C27 witness: a published swing short whose 4h RSI14 is exactly 50, the
\* upper end of (45,50].
C27_Witness ==
    /\ pc = "done"
    /\ Len(signalResults) >= 1
    /\ signalResults[1].signal = "swing_short"
    /\ signalResults[1].timeframes["4h"].rsi14 = R(50)
    /\ signalResults[1].timeframes["4h"].rsi14Falling

\* the confidence the scanner computes for the swing signal of the entry's
\* bias, and for the scalp signal of its scalp bias
SwingConfidenceOf(e) ==
    LET tfs == e.timeframes
    IN  calculateConfidence(e.swingBias, tfs["1d"].rsi14, tfs["4h"].rsi14,
            tfs["4h"].rsi5, tfs["4h"].rsi9, TRUE,
            IF e.swingBias = "long_only" THEN tfs["1h"].rsi14Rising
            ELSE tfs["1h"].rsi14Falling,
            TRUE, tfs["1h"].rsi14)

ScalpConfidenceOf(e) ==
    LET tfs == e.timeframes
    IN  calculateConfidence(e.scalpBias, tfs["1d"].rsi14, tfs["4h"].rsi14,
            tfs["5m"].rsi5, tfs["5m"].rsi9,
            tfs["5m"].bullFlip \/ tfs["5m"].bearFlip
                \/ ("1m" \in DOMAIN tfs /\ (tfs["1m"].bullFlip \/ tfs["1m"].bearFlip)),
            /\ IsNum(tfs["15m"].rsi14)
            /\ IF e.scalpBias = "long_only" THEN RGe(tfs["15m"].rsi14, R(45))
               ELSE RLe(tfs["15m"].rsi14, R(55)),
            FALSE, UNDEF)

\* a swing check of the entry's snapshots is valid and its confidence is
\* below 40
WeakSwing(e) == (EntrySwingLong(e) \/ EntrySwingShort(e)) /\ SwingConfidenceOf(e) < 40

\* the pair under evaluation, with the biases of its snapshots
PairUnderEvaluation ==
    [swingBias |-> calculateSwingBias(timeframes["1d"].trendState, timeframes["4h"].trendState),
     scalpBias |-> calculateScalpBias(timeframes["1h"].trendState, timeframes["4h"].trendState),
     timeframes |-> timeframes]

WeakSwingPair ==
    /\ pc = "evaluate"
    /\ {"4h", "1h", "1d"} \subseteq DOMAIN timeframes
    /\ WeakSwing(PairUnderEvaluation)

\* C28: when a swing check of a pair is valid but its confidence is below 40,
\* the scalp checks are not evaluated and the pair is reported as watching,
\* with no signal, confidence 0 and the watching reasons, also when the
\* scalp check of the pair would be valid with a confidence of 40 or more.
C28_WeakSwingIsWatching ==
    /\ [](\A e \in EntriesOf(results) \cup EntriesOf(signalResults) :
            WeakSwing(e) =>
                /\ e.signal = "null"
                /\ e.confidence = 0
                /\ e.reasons = WatchingReasons(e.swingBias, e.scalpBias))
    /\ [][WeakSwingPair =>
            /\ Len(results') = Len(results) + 1
            /\ results'[Len(results')].signal = "null"
            /\ results'[Len(results')].timeframes = timeframes]_vars

\* C28 witness: a published watching entry whose snapshots satisfy the swing
\* long check with a confidence below 40 and the scalp long check with a
\* confidence of at least 40.
C28_Witness ==
    /\ pc = "done"
    /\ \E i \in 1..Len(signalResults) :
        LET e == signalResults[i]
        IN  /\ e.signal = "null"
            /\ EntrySwingLong(e)
            /\ SwingConfidenceOf(e) < 40
            /\ EntryScalpLong(e)
            /\ ScalpConfidenceOf(e) >= 40

-----------------------------------------------------------------------------
(* app/page.tsx: the alert list of Home and the alert modal *)

MaxSaved == 3     \* longest alert list the modal builds

\* mutant: the threshold is not part of the comparison
SameAlert_NoThreshold(a, alert) ==
    /\ a.symbol = alert.symbol
    /\ a.rsiPeriod = alert.rsiPeriod
    /\ a.timeframe = alert.timeframe
    /\ a.condition = alert.condition

\* lines 858-864 and AlertModal lines 207-213: the callback of findIndex
SameAlert(a, alert) ==
    /\ a.symbol = alert.symbol
    /\ a.rsiPeriod = alert.rsiPeriod
    /\ a.timeframe = alert.timeframe
    /\ a.condition = alert.condition
    /\ a.threshold = alert.threshold

\* Array.prototype.findIndex with that callback: the first index, counted
\* from 0, or -1
FindAlertIndex(list, alert) ==
    LET hits == {i \in 1..Len(list) : SameAlert(list[i], alert)}
    IN  IF hits = {} THEN -1
        ELSE (CHOOSE i \in hits : \A j \in hits : i <= j) - 1

\* lines 855-874: the updater that handleSaveAlert hands to setAlerts
handleSaveAlert(prev, alert) ==
    LET existingIdx == FindAlertIndex(prev, alert)
    IN  IF existingIdx >= 0
        THEN [prev EXCEPT ![existingIdx + 1] = alert]
        ELSE Append(prev, alert)

\* lines 876-878: prev.filter((_, i) => i !== index)
handleDeleteAlert(prev, index) ==
    LET kept == {i \in 1..Len(prev) : i - 1 # index}
        Nth(n) == CHOOSE i \in kept : Cardinality({j \in kept : j < i}) = n - 1
    IN  [n \in 1..Cardinality(kept) |-> prev[Nth(n)]]

\* what the modal can be asked to add: its defaults (RSI14, 4h, below 30, for
\* the coin it was opened on) and that alert with one field changed
DefaultAlert ==
    [symbol |-> WithUSDT("BTC"), rsiPeriod |-> 14, timeframe |-> "4h",
     condition |-> "below", threshold |-> R(30), enabled |-> TRUE]

AddedAlerts ==
    {DefaultAlert,
     [DefaultAlert EXCEPT !.symbol = WithUSDT("ETH")],
     [DefaultAlert EXCEPT !.rsiPeriod = 9],
     [DefaultAlert EXCEPT !.timeframe = "1h"],
     [DefaultAlert EXCEPT !.condition = "above"],
     [DefaultAlert EXCEPT !.threshold = R(70)]}

\* AlertModal handleAdd (part_001 lines 117-126): onSaveAlert with the form
\* values and enabled: true
HandleAdd ==
    /\ fn = "idle"
    /\ \E alert \in AddedAlerts :
        /\ Len(handleSaveAlert(alertsState, alert)) <= MaxSaved
        /\ fn' = "handleSaveAlert"
        /\ args' = <<alertsState, alert>>
        /\ ret' = handleSaveAlert(alertsState, alert)
        /\ alertsState' = handleSaveAlert(alertsState, alert)
    /\ UNCHANGED <<scanVars, alertVars, wsVars>>

\* AlertModal Switch (part_001 lines 217-222): onSaveAlert({...alert, enabled:
\* checked}) for an alert of the list
HandleSwitch ==
    /\ fn = "idle"
    /\ \E i \in 1..Len(alertsState), checked \in BOOLEAN :
        LET alert == [alertsState[i] EXCEPT !.enabled = checked]
        IN  /\ fn' = "handleSaveAlert"
            /\ args' = <<alertsState, alert>>
            /\ ret' = handleSaveAlert(alertsState, alert)
            /\ alertsState' = handleSaveAlert(alertsState, alert)
    /\ UNCHANGED <<scanVars, alertVars, wsVars>>

\* AlertModal delete button (part_001 lines 206-213, 227-234):
\* onDeleteAlert(globalIdx), globalIdx found by the five fields
HandleDelete ==
    /\ fn = "idle"
    /\ \E i \in 1..Len(alertsState) :
        LET globalIdx == FindAlertIndex(alertsState, alertsState[i])
        IN  /\ fn' = "handleDeleteAlert"
            /\ args' = <<alertsState, globalIdx, alertsState[i]>>
            /\ ret' = handleDeleteAlert(alertsState, globalIdx)
            /\ alertsState' = handleDeleteAlert(alertsState, globalIdx)
    /\ UNCHANGED <<scanVars, alertVars, wsVars>>

NextAlertList ==
    \/ HandleAdd
    \/ HandleSwitch
    \/ HandleDelete
    \/ Return

SpecAlertList == InitIdle /\ [][NextAlertList]_vars

-----------------------------------------------------------------------------
(* Claims about the alert list *)

FiveFields(a) == <<a.symbol, a.rsiPeriod, a.timeframe, a.condition, a.threshold>>

NoTwoAlike(list) ==
    \A i, j \in 1..Len(list) : FiveFields(list[i]) = FiveFields(list[j]) => i = j

\* list without its element at position k (counted from 1)
Without(list, k) == SubSeq(list, 1, k - 1) \o SubSeq(list, k + 1, Len(list))

SavedInPlace(before, alert, after) ==
    /\ Len(after) = Len(before)
    /\ \E k \in 1..Len(before) :
        /\ FiveFields(before[k]) = FiveFields(alert)
        /\ after[k] = alert
        /\ \A i \in 1..Len(before) : i # k => after[i] = before[i]

SavedAtEnd(before, alert, after) == after = before \o <<alert>>

\* C30: starting from an empty list, the alert list never holds two alerts
\* with the same symbol, rsiPeriod, timeframe, condition and threshold; a save
\* whose five fields match an entry replaces that entry in place (same
\* length, every other entry untouched, only enabled can differ), any other
\* save appends; a delete of the index found by the five fields removes
\* exactly that alert.
C30_AlertListUnique ==
    /\ NoTwoAlike(alertsState)
    /\ fn = "handleSaveAlert" =>
        /\ alertsState = ret
        /\ IF \E k \in 1..Len(args[1]) : FiveFields(args[1][k]) = FiveFields(args[2])
           THEN SavedInPlace(args[1], args[2], ret)
           ELSE SavedAtEnd(args[1], args[2], ret)
    /\ fn = "handleDeleteAlert" =>
        /\ alertsState = ret
        /\ \E k \in 1..Len(args[1]) :
            /\ args[1][k] = args[3]
            /\ ret = Without(args[1], k)
        /\ \A k \in 1..Len(ret) : FiveFields(ret[k]) # FiveFields(args[3])

\* C30 witness: a list of three alerts whose second entry has just been
\* replaced in place by the same alert with enabled switched off.
C30_Witness ==
    /\ fn = "handleSaveAlert"
    /\ Len(args[1]) = 3
    /\ Len(alertsState) = 3
    /\ args[1][2].enabled
    /\ ~alertsState[2].enabled
    /\ alertsState[2] = args[2]

\* a delete from a list of three alerts has removed the middle one
C30_DeletedMiddle ==
    /\ fn = "handleDeleteAlert"
    /\ Len(args[1]) = 3
    /\ args[2] = 1
    /\ alertsState = <<args[1][1], args[1][3]>>

-----------------------------------------------------------------------------
(* lib/websocket.ts: BinanceWebSocket *)

MaxSockets == 4   \* WebSocket objects constructed in one behaviour
MaxTimers == 2    \* timeouts set in one behaviour

\* the symbol lists the page connects with, each as the set of its elements
SymbolLists == {{"BTCUSDT"}, {"BTCUSDT", "ETHUSDT"}}

\* the fields of the manager that its methods read and write
Manager ==
    [symbols |-> symbols, priceWs |-> priceWs, klineWs |-> klineWs,
     reconnectTimeout |-> reconnectTimeout, sockets |-> sockets,
     timers |-> timers, timerCount |-> timerCount]

\* WebSocket.close(): a socket that is connecting or open starts closing and
\* its close event is delivered later; on a closing or closed socket the
\* call does nothing
CloseSocket(socks, id, caller) ==
    IF id # 0 /\ socks[id].readyState = "OPEN"
    THEN [socks EXCEPT ![id].readyState = "CLOSING", ![id].closedBy = caller]
    ELSE socks

NewSocket(kind) == [kind |-> kind, readyState |-> "OPEN", closedBy |-> "none"]

\* lines 119-126
scheduleReconnect(mgr) ==
    [mgr EXCEPT !.timers = (@ \ {mgr.reconnectTimeout}) \cup {mgr.timerCount + 1},
                !.reconnectTimeout = mgr.timerCount + 1,
                !.timerCount = @ + 1]

\* lines 22-71; thrown: the WebSocket constructor throws
connectPriceStream(mgr, thrown) ==
    LET closed == [mgr EXCEPT !.sockets = CloseSocket(@, mgr.priceWs, "connect")]
    IN  IF thrown
        THEN scheduleReconnect(closed)
        ELSE [closed EXCEPT !.sockets = Append(@, NewSocket("price")),
                            !.priceWs = Len(closed.sockets) + 1]

\* lines 73-117
connectKlineStream(mgr, thrown) ==
    LET closed == [mgr EXCEPT !.sockets = CloseSocket(@, mgr.klineWs, "connect")]
    IN  IF thrown
        THEN closed
        ELSE [closed EXCEPT !.sockets = Append(@, NewSocket("kline")),
                            !.klineWs = Len(closed.sockets) + 1]

\* lines 16-20
connect(mgr, list, thrown) ==
    connectKlineStream(
        connectPriceStream([mgr EXCEPT !.symbols = list], "price" \in thrown),
        "kline" \in thrown)

\* lines 136-141
updateSymbols(mgr, list, thrown) ==
    IF list # mgr.symbols THEN connect([mgr EXCEPT !.symbols = list], list, thrown)
    ELSE mgr

\* lines 143-157
disconnect(mgr) ==
    LET priceClosed ==
            IF mgr.priceWs # 0
            THEN [mgr EXCEPT !.sockets = CloseSocket(@, mgr.priceWs, "disconnect"),
                             !.priceWs = 0]
            ELSE mgr
        klineClosed ==
            IF priceClosed.klineWs # 0
            THEN [priceClosed EXCEPT
                     !.sockets = CloseSocket(@, priceClosed.klineWs, "disconnect"),
                     !.klineWs = 0]
            ELSE priceClosed
    IN  IF klineClosed.reconnectTimeout # 0
        THEN [klineClosed EXCEPT !.timers = @ \ {klineClosed.reconnectTimeout}]
        ELSE klineClosed

\* lines 63-66 and 111-113: the onclose handler of a socket
onclose(mgr, id) ==
    LET done == [mgr EXCEPT !.sockets[id].readyState = "CLOSED"]
    IN  IF mgr.sockets[id].kind = "price" THEN scheduleReconnect(done) ELSE done

WithinBounds(mgr) == Len(mgr.sockets) <= MaxSockets /\ mgr.timerCount <= MaxTimers

Becomes(mgr, event, isQuiet) ==
    /\ WithinBounds(mgr)
    /\ symbols' = mgr.symbols
    /\ priceWs' = mgr.priceWs
    /\ klineWs' = mgr.klineWs
    /\ reconnectTimeout' = mgr.reconnectTimeout
    /\ sockets' = mgr.sockets
    /\ timers' = mgr.timers
    /\ timerCount' = mgr.timerCount
    /\ wsEvent' = event
    /\ quiet' = isQuiet
    /\ UNCHANGED <<pureVars, scanVars, alertVars, listVars>>

ThrownDraws == SUBSET {"price", "kline"}

\* page.tsx line 786: the effect calls binanceWs.connect(allSymbols)
WsConnect ==
    /\ fn = "idle"
    /\ \E list \in SymbolLists, thrown \in ThrownDraws :
        Becomes(connect(Manager, list, thrown), "connect", FALSE)

\* a caller of binanceWs.updateSymbols
WsUpdateSymbols ==
    /\ fn = "idle"
    /\ \E list \in SymbolLists, thrown \in ThrownDraws :
        Becomes(updateSymbols(Manager, list, thrown), "updateSymbols", FALSE)

\* page.tsx lines 811-814: the cleanup of the effect calls disconnect()
WsDisconnect ==
    /\ fn = "idle"
    /\ Becomes(disconnect(Manager), "disconnect", TRUE)

\* the close event of a socket: the end of the closing that close() began, or
\* a connection that the network or the server ended
WsCloseEvent ==
    /\ fn = "idle"
    /\ \E id \in 1..Len(sockets) :
        /\ sockets[id].readyState \in {"OPEN", "CLOSING"}
        /\ Becomes(onclose(Manager, id), "close", quiet)

\* lines 123-125: a pending timeout fires and calls connect(this.symbols)
WsTimerFires ==
    /\ fn = "idle"
    /\ \E t \in timers, thrown \in ThrownDraws :
        Becomes(connect([Manager EXCEPT !.timers = @ \ {t}], symbols, thrown),
                "timer", quiet)

NextWebSocket ==
    \/ WsConnect
    \/ WsUpdateSymbols
    \/ WsDisconnect
    \/ WsCloseEvent
    \/ WsTimerFires

SpecWebSocket == InitIdle /\ [][NextWebSocket]_vars

-----------------------------------------------------------------------------
(* Claims about the reconnection of the price stream *)

\* a socket that connect() replaced gets its close event
ReplacedSocketCloses ==
    \E id \in 1..Len(sockets) :
        /\ sockets[id].closedBy = "connect"
        /\ sockets[id].readyState = "CLOSING"
        /\ sockets'[id].readyState = "CLOSED"

\* C29: after disconnect() has returned, and until the page calls connect()
\* or updateSymbols() again, no WebSocket is opened and no reconnect timer
\* fires, whatever the order of the close events of the sockets it closed;
\* the close event of a price socket that connect() replaced schedules no
\* reconnect; and at most one reconnect timer is pending at any time.
C29_NoReconnectAfterDisconnect ==
    /\ [][(quiet /\ quiet') => (Len(sockets') = Len(sockets) /\ wsEvent' # "timer")]_vars
    /\ [][ReplacedSocketCloses => timerCount' = timerCount]_vars
    /\ [](Cardinality(timers) <= 1)

\* the part of it that holds: at most one reconnect timer is pending, and it
\* is the one the manager remembers
C29_OneTimerPending == timers \subseteq {reconnectTimeout} /\ Cardinality(timers) <= 1

\* after disconnect() the close event of the price socket has set a timer,
\* the timer has fired and a new price socket is open
C29_ReopenedAfterDisconnect ==
    /\ quiet
    /\ wsEvent = "timer"
    /\ priceWs # 0
    /\ sockets[priceWs].readyState = "OPEN"
    /\ \E id \in 1..Len(sockets) :
        sockets[id].closedBy = "disconnect" /\ sockets[id].kind = "price"

\* the close event of a price socket that connect() replaced has set a timer
C29_ReplacedSocketReconnects ==
    /\ wsEvent = "close"
    /\ timers # {}
    /\ \E id \in 1..Len(sockets) :
        /\ sockets[id].kind = "price"
        /\ sockets[id].closedBy = "connect"
        /\ sockets[id].readyState = "CLOSED"
    /\ \A id \in 1..Len(sockets) :
        sockets[id].kind = "price" /\ sockets[id].readyState = "CLOSED"
            => sockets[id].closedBy = "connect"

====
